---------------------------- MODULE Spec2Model ----------------------------
(***************************************************************************)
(* A model of the image matting core of voice-pixels                       *)
(* (src/services/segmentationService.ts): chroma keying, two erosions,     *)
(* two dilations and the flood-fill region filter of                       *)
(* removeBackgroundColor, and the key colour sampler getContrastingColor;  *)
(* and of the voice session of src/App.tsx: startSession, stopSession,     *)
(* the audio callback and handleToolCall.                                  *)
(*                                                                         *)
(* An ImageData is a record [width, height, data]; data is the flat        *)
(* Uint8ClampedArray, a function on 0 .. width*height*4 - 1, pixel p       *)
(* holding red, green, blue, alpha at 4p, 4p+1, 4p+2, 4p+3.                *)
(***************************************************************************)
EXTENDS Integers, Sequences, FiniteSets, TLC

VARIABLES
    pc,               \* where the onload handler of removeBackgroundColor stands
    source,           \* the image behind base64Image, as the canvas decodes it
    ctxAvailable,     \* whether canvas.getContext('2d') returns a context
    backgroundColor,  \* the '#RRGGBB' argument, a sequence of characters
    tolerance,        \* the tolerance argument
    imageData,        \* the local imageData of the handler
    promise,          \* the returned promise: pending, resolved or rejected (and why)
    output,           \* <<the image put on the canvas and encoded>>, <<>> before that
    passLog,          \* the passes run so far, each with the buffer it left
    filterSize,       \* the minRegionSize a flood fill compares with
    order,            \* "code": raster scan and LIFO work-list; "any": any order
    fpc,              \* where the region filter's scan stands
    visited,          \* the visited set of the region filter
    stack,            \* the work-list of the running flood fill
    region,           \* the region collected by the running flood fill
    seeds,            \* the seeds flood-filled so far, with the size each returned
    marks,            \* how many times each pixel was added to visited
    spc,              \* where getContrastingColor stands
    sample,           \* the image given to getContrastingColor, as its 100x100 canvas reads it
    sampleCtx,        \* whether the sampling canvas gives a 2d context
    samplePos,        \* i / 4 of the brightness loop: the pixels added so far
    totalBrightness,  \* the double totalBrightness
    samplerPromise,   \* the promise getContrastingColor returned
    appState,         \* the React state appState
    isProcessingTool, \* isProcessingToolRef.current
    shouldSendAudio,  \* shouldSendAudioRef.current
    sessionPromise,   \* sessionPromiseRef.current: 0 for null, else the number of the session
    processor,        \* processorRef.current: 0 for null, else the number of the processor
    processors,       \* the script processors that are connected and fire onaudioprocess
    inputAudioContext, \* inputAudioContextRef.current: 0 for null, else the number of the context
    sources,          \* sourcesRef.current.size
    history,          \* history.length
    currentIndex,     \* the React state currentIndex
    sessions,         \* the calls of startSession so far, each with where it stands
    batches,          \* the calls of handleToolCall so far, each with where it stands
    audioLog,         \* the kinds of call of session.sendRealtimeInput made so far
    pendingAudio,     \* the audio chunks that wait for a pending session promise
    toolResponses,    \* the calls of session.sendToolResponse so far
    ppc,              \* where one call of erode or dilate stands
    passKind,         \* "erode" or "dilate": the function called
    passOrder,        \* "code": the raster scan of the two for loops; "any": any order
    passOutput,       \* the local output of erode or dilate
    passDone,         \* the pixels whose iteration of the loop body has run
    historyStore,     \* the object store 'history': the items by id
    sessionsStore,    \* the object store 'sessions': the metadata records by sessionId
    transaction,      \* the transaction of the running deleteSession
    deletePromise     \* the promise deleteSession returned

pipeVars == <<pc, source, ctxAvailable, backgroundColor, tolerance, promise, output, passLog>>
fillVars == <<filterSize, order, fpc, visited, stack, region, seeds, marks>>
sampleVars == <<spc, sample, sampleCtx, samplePos, totalBrightness, samplerPromise>>
appVars == <<appState, isProcessingTool, shouldSendAudio, sessionPromise, processor, processors,
             inputAudioContext, sources, history, currentIndex, sessions, batches, audioLog,
             pendingAudio, toolResponses>>
passVars == <<ppc, passKind, passOrder, passOutput, passDone>>
dbVars == <<historyStore, sessionsStore, transaction, deletePromise>>
vars == <<pc, source, ctxAvailable, backgroundColor, tolerance, imageData,
          promise, output, passLog, filterSize, order, fpc, visited, stack, region, seeds, marks,
          spc, sample, sampleCtx, samplePos, totalBrightness, samplerPromise,
          appState, isProcessingTool, shouldSendAudio, sessionPromise, processor, processors,
          inputAudioContext, sources, history, currentIndex, sessions, batches, audioLog,
          pendingAudio, toolResponses,
          ppc, passKind, passOrder, passOutput, passDone,
          historyStore, sessionsStore, transaction, deletePromise>>

-----------------------------------------------------------------------------
(* Small helpers *)

Min(a, b) == IF a < b THEN a ELSE b
Max(a, b) == IF a > b THEN a ELSE b

RECURSIVE GCD(_, _)
GCD(a, b) == IF b = 0 THEN a ELSE GCD(b, a % b)

\* The pixels of an image, in raster order.
Pixels(img) == 0 .. (img.width * img.height - 1)

\* new ImageData-like value from a width, a height and a pixel -> <<r,g,b,a>> map.
ImageOf(w, h, px) ==
    [width |-> w, height |-> h,
     data |-> [k \in 0 .. (w * h * 4 - 1) |-> px[k \div 4][(k % 4) + 1]]]

-----------------------------------------------------------------------------
(* Parsing the key colour: parseInt(backgroundColor.slice(a, b), 16) *)

HexDigits == <<"0", "1", "2", "3", "4", "5", "6", "7", "8", "9", "A", "B", "C", "D", "E", "F">>

hexValue(c) == (CHOOSE i \in 1 .. 16 : HexDigits[i] = c) - 1

\* slice(a, b) of a string held as a sequence: characters a .. b-1, 0-based.
slice(s, a, b) == SubSeq(s, a + 1, b)

RECURSIVE parseInt16(_)
parseInt16(s) ==
    IF s = <<>> THEN 0
    ELSE 16 * parseInt16(SubSeq(s, 1, Len(s) - 1)) + hexValue(s[Len(s)])

\* A faulty variant: the red and green slices exchanged.
bgColorOfShifted(color) ==
    [r |-> parseInt16(slice(color, 3, 5)),
     g |-> parseInt16(slice(color, 1, 3)),
     b |-> parseInt16(slice(color, 5, 7))]

bgColorOf(color) ==
    [r |-> parseInt16(slice(color, 1, 3)),
     g |-> parseInt16(slice(color, 3, 5)),
     b |-> parseInt16(slice(color, 5, 7))]

GREEN == <<"#", "0", "0", "F", "F", "0", "0">>
MAGENTA == <<"#", "F", "F", "0", "0", "F", "F">>

-----------------------------------------------------------------------------
(* Pass 1: chroma key removal.                                             *)
(*                                                                         *)
(* The code compares the floating-point distance sqrt(n), n the squared    *)
(* RGB distance, with tolerance and tolerance * 1.3, and stores            *)
(* ((distance - tolerance) / (tolerance * 0.3)) * 255 into a               *)
(* Uint8ClampedArray, which rounds to the nearest integer, ties to even.   *)
(* The model computes the same values in integers:                         *)
(*    sqrt(n) < t           iff  t > 0 and n < t*t                         *)
(*    sqrt(n) < t * 1.3     iff  t > 0 and 100*n < 169*t*t                 *)
(*    x >= k - 1/2, x = 850*(sqrt(n)-t)/t                                  *)
(*                          iff  ((2k+1699)*t)^2 <= 1700^2 * n             *)
(* (the last one with t and 1700 divided by their gcd, to stay within      *)
(* TLC's 32-bit integers).  For every tolerance of Tolerances these agree  *)
(* with IEEE-754 double arithmetic on every n of 0 .. 3*255^2.             *)
(***************************************************************************)

distanceSq(r, g, b, bgColor) ==
    (r - bgColor.r) * (r - bgColor.r) +
    (g - bgColor.g) * (g - bgColor.g) +
    (b - bgColor.b) * (b - bgColor.b)

\* distance < tolerance
belowTolerance(n, t) == t > 0 /\ n < t * t

\* distance < tolerance * 1.3
belowFeatherEnd(n, t) == t > 0 /\ 100 * n < 169 * t * t

\* A faulty variant: a band of tolerance * 0.5 in the quotient,
\* ((distance - tolerance) / (tolerance * 0.5)) * 255 >= k - 1/2.
featherAtLeastHalfBelowWide(n, t, k) ==
    LET g == GCD(t, 1020)
        tt == t \div g
        m == 1020 \div g
    IN  ((2 * k + 1019) * tt) * ((2 * k + 1019) * tt) <= m * m * n

\* ((distance - tolerance) / (tolerance * 0.3)) * 255 >= k - 1/2
featherAtLeastHalfBelow(n, t, k) ==
    LET g == GCD(t, 1700)
        tt == t \div g
        m == 1700 \div g
    IN  ((2 * k + 1699) * tt) * ((2 * k + 1699) * tt) <= m * m * n

\* ((distance - tolerance) / (tolerance * 0.3)) * 255 = k - 1/2 exactly
featherIsHalfBelow(n, t, k) ==
    LET g == GCD(t, 1700)
        tt == t \div g
        m == 1700 \div g
    IN  ((2 * k + 1699) * tt) * ((2 * k + 1699) * tt) = m * m * n

\* The feather value as the Uint8ClampedArray stores it, for a distance of the
\* feather band (tolerance <= distance < tolerance * 1.3): nearest integer,
\* a tie going to the even one.
featherAlpha(n, t) ==
    LET k == CHOOSE c \in 0 .. 255 :
                 /\ featherAtLeastHalfBelow(n, t, c)
                 /\ (c = 255 \/ ~featherAtLeastHalfBelow(n, t, c + 1))
    IN  IF featherIsHalfBelow(n, t, k) /\ k % 2 = 1 THEN k - 1 ELSE k

\* A faulty variant: the feather value assigned without Math.min.
keyAlphaNoMin(r, g, b, a, bgColor, t) ==
    LET n == distanceSq(r, g, b, bgColor)
    IN  IF belowTolerance(n, t) THEN 0
        ELSE IF belowFeatherEnd(n, t) THEN featherAlpha(n, t)
        ELSE a

\* A faulty variant: the previous alpha scaled by the feather value instead
\* of capped by it.
keyAlphaScaled(r, g, b, a, bgColor, t) ==
    LET n == distanceSq(r, g, b, bgColor)
    IN  IF belowTolerance(n, t) THEN 0
        ELSE IF belowFeatherEnd(n, t) THEN (a * featherAlpha(n, t)) \div 255
        ELSE a

\* The alpha the keying loop leaves in data[i + 3] for one pixel.
keyAlpha(r, g, b, a, bgColor, t) ==
    LET n == distanceSq(r, g, b, bgColor)
    IN  IF belowTolerance(n, t) THEN 0
        ELSE IF belowFeatherEnd(n, t) THEN Min(a, featherAlpha(n, t))
        ELSE a

\* The whole loop over i = 0, 4, 8, ...: only data[i + 3] is assigned.
chromaKey(img, color, t) ==
    LET bgColor == bgColorOf(color)
    IN  [img EXCEPT !.data =
            [k \in DOMAIN img.data |->
                IF k % 4 = 3
                THEN keyAlpha(img.data[k - 3], img.data[k - 2], img.data[k - 1],
                              img.data[k], bgColor, t)
                ELSE img.data[k]]]

-----------------------------------------------------------------------------
(* Pass 2 and 3: morphological erosion and dilation *)

\* The in-bounds positions (nx, ny) with |nx - x| <= radius and |ny - y| <= radius:
\* what the dy, dx loops visit and the bounds test lets through.
window(img, x, y, radius) ==
    {ny * img.width + nx :
        nx \in Max(0, x - radius) .. Min(img.width - 1, x + radius),
        ny \in Max(0, y - radius) .. Min(img.height - 1, y + radius)}

\* A faulty variant: only the pixel itself is looked at.
hasTransparentNeighborSelfOnly(img, x, y, radius) ==
    img.data[(y * img.width + x) * 4 + 3] = 0

\* A faulty variant: a position outside the image counts as transparent.
hasTransparentNeighborPastEdge(img, x, y, radius) ==
    \/ \E q \in window(img, x, y, radius) : img.data[q * 4 + 3] = 0
    \/ x - radius < 0
    \/ x + radius > img.width - 1
    \/ y - radius < 0
    \/ y + radius > img.height - 1

hasTransparentNeighbor(img, x, y, radius) ==
    \E q \in window(img, x, y, radius) : img.data[q * 4 + 3] = 0

\* A faulty variant: Math.min in place of Math.max.
minAlphaOfWindow(img, x, y, radius) ==
    LET as == {img.data[q * 4 + 3] : q \in window(img, x, y, radius)}
                 \cup {img.data[(y * img.width + x) * 4 + 3]}
    IN  CHOOSE a \in as : \A c \in as : a <= c

\* A faulty variant: only the four edge neighbours are looked at, no diagonal.
maxAlphaOfCross(img, x, y, radius) ==
    LET as == {img.data[q * 4 + 3] :
                  q \in {w \in window(img, x, y, radius) :
                            w % img.width = x \/ w \div img.width = y}}
                 \cup {img.data[(y * img.width + x) * 4 + 3]}
    IN  CHOOSE a \in as : \A c \in as : c <= a

maxAlpha(img, x, y, radius) ==
    LET as == {img.data[q * 4 + 3] : q \in window(img, x, y, radius)}
                 \cup {img.data[(y * img.width + x) * 4 + 3]}
    IN  CHOOSE a \in as : \A c \in as : c <= a

\* A faulty variant: the colour channels copied only for a pixel that keeps
\* its alpha (the output buffer starts as zeros).
erodeDroppingRGB(img, radius) ==
    [width |-> img.width, height |-> img.height,
     data |-> [k \in 0 .. (img.width * img.height * 4 - 1) |->
                 LET p == k \div 4
                     x == p % img.width
                     y == p \div img.width
                 IN  IF hasTransparentNeighbor(img, x, y, radius) THEN 0
                     ELSE img.data[k]]]

\* A faulty variant: new ImageData(height, width).
erodeSwappingSize(img, radius) ==
    [width |-> img.height, height |-> img.width,
     data |-> [k \in 0 .. (img.width * img.height * 4 - 1) |->
                 LET p == k \div 4
                     x == p % img.width
                     y == p \div img.width
                 IN  IF k % 4 < 3 THEN img.data[k]
                     ELSE IF hasTransparentNeighbor(img, x, y, radius) THEN 0
                     ELSE img.data[k]]]

erode(img, radius) ==
    [width |-> img.width, height |-> img.height,
     data |-> [k \in 0 .. (img.width * img.height * 4 - 1) |->
                 LET p == k \div 4
                     x == p % img.width
                     y == p \div img.width
                 IN  IF k % 4 < 3 THEN img.data[k]
                     ELSE IF hasTransparentNeighbor(img, x, y, radius) THEN 0
                     ELSE img.data[k]]]

\* A faulty variant: a window two pixels wider than asked for.
dilateWide(img, radius) ==
    [width |-> img.width, height |-> img.height,
     data |-> [k \in 0 .. (img.width * img.height * 4 - 1) |->
                 LET p == k \div 4
                     x == p % img.width
                     y == p \div img.width
                 IN  IF k % 4 < 3 THEN img.data[k]
                     ELSE maxAlpha(img, x, y, radius + 2)]]

dilate(img, radius) ==
    [width |-> img.width, height |-> img.height,
     data |-> [k \in 0 .. (img.width * img.height * 4 - 1) |->
                 LET p == k \div 4
                     x == p % img.width
                     y == p \div img.width
                 IN  IF k % 4 < 3 THEN img.data[k]
                     ELSE maxAlpha(img, x, y, radius)]]

-----------------------------------------------------------------------------
(* Pass 4: the region filter (floodFill and the scan that calls it) *)

minRegionSize == 50

\* A faulty variant: only the right and the lower neighbour are pushed.
pushesForward(img, idx) ==
    LET x == idx % img.width
        y == idx \div img.width
    IN  (IF x < img.width - 1 THEN <<idx + 1>> ELSE <<>>) \o
        (IF y < img.height - 1 THEN <<idx + img.width>> ELSE <<>>)

\* A faulty variant: the left and right neighbours are idx - 1 and idx + 1
\* whatever the column, so a row's last pixel is joined to the next row's first.
pushesWrapping(img, idx) ==
    LET y == idx \div img.width
    IN  (IF idx > 0 THEN <<idx - 1>> ELSE <<>>) \o
        (IF idx < img.width * img.height - 1 THEN <<idx + 1>> ELSE <<>>) \o
        (IF y > 0 THEN <<idx - img.width>> ELSE <<>>) \o
        (IF y < img.height - 1 THEN <<idx + img.width>> ELSE <<>>)

\* The neighbours one iteration pushes, in the order of the four pushes.
pushes(img, idx) ==
    LET x == idx % img.width
        y == idx \div img.width
    IN  (IF x > 0 THEN <<idx - 1>> ELSE <<>>) \o
        (IF x < img.width - 1 THEN <<idx + 1>> ELSE <<>>) \o
        (IF y > 0 THEN <<idx - img.width>> ELSE <<>>) \o
        (IF y < img.height - 1 THEN <<idx + img.width>> ELSE <<>>)

removeAt(s, j) == SubSeq(s, 1, j - 1) \o SubSeq(s, j + 1, Len(s))

\* A faulty variant: no "if (visited.has(idx)) continue".
popStepRevisiting(img, st, j) ==
    LET idx == st.stack[j]
        rest == removeAt(st.stack, j)
    IN  IF img.data[idx * 4 + 3] = 0
        THEN [st EXCEPT !.stack = rest, !.visited = @ \cup {idx}]
        ELSE [visited |-> st.visited \cup {idx},
              stack |-> rest \o pushes(img, idx),
              region |-> Append(st.region, idx)]

\* A faulty variant: a visited entry is looked at but left on the work-list.
popStepPeeking(img, st, j) ==
    LET idx == st.stack[j]
        rest == removeAt(st.stack, j)
    IN  IF idx \in st.visited
        THEN st
        ELSE IF img.data[idx * 4 + 3] = 0
        THEN [st EXCEPT !.stack = rest, !.visited = @ \cup {idx}]
        ELSE [visited |-> st.visited \cup {idx},
              stack |-> rest \o pushes(img, idx),
              region |-> Append(st.region, idx)]

\* One iteration of floodFill's while loop, taking the entry at position j of
\* the work-list (stack.pop() takes j = Len(stack)).  st = [visited, stack, region].
popStep(img, st, j) ==
    LET idx == st.stack[j]
        rest == removeAt(st.stack, j)
    IN  IF idx \in st.visited
        THEN [st EXCEPT !.stack = rest]
        ELSE IF img.data[idx * 4 + 3] = 0
        THEN [st EXCEPT !.stack = rest, !.visited = @ \cup {idx}]
        ELSE [visited |-> st.visited \cup {idx},
              stack |-> rest \o pushes(img, idx),
              region |-> Append(st.region, idx)]

\* while (stack.length > 0) { ... }: the loop test and one iteration.
popOnce(img, st) == IF st.stack = <<>> THEN st ELSE popStep(img, st, Len(st.stack))
popFour(img, st) == popOnce(img, popOnce(img, popOnce(img, popOnce(img, st))))
popSixteen(img, st) == popFour(img, popFour(img, popFour(img, popFour(img, st))))

\* The while loop, sixteen iterations for each level of the recursion (an
\* iteration on an empty work-list is the loop's exit and changes nothing).
RECURSIVE floodFillLoop(_, _)
floodFillLoop(img, st) ==
    IF st.stack = <<>> THEN st
    ELSE floodFillLoop(img, popSixteen(img, st))

\* A faulty variant: size <= minRegionSize.
clearIfSmallInclusive(img, reg, minSize) ==
    IF Len(reg) <= minSize
    THEN [img EXCEPT !.data =
            [k \in DOMAIN img.data |->
                IF k % 4 = 3 /\ (\E n \in 1 .. Len(reg) : reg[n] = k \div 4)
                THEN 0 ELSE img.data[k]]]
    ELSE img

\* "If region too small, mark for removal": size is region.length throughout.
clearIfSmall(img, reg, minSize) ==
    IF Len(reg) < minSize
    THEN [img EXCEPT !.data =
            [k \in DOMAIN img.data |->
                IF k % 4 = 3 /\ (\E n \in 1 .. Len(reg) : reg[n] = k \div 4)
                THEN 0 ELSE img.data[k]]]
    ELSE img

floodFill(img, visitedSet, startIdx, minSize) ==
    LET end == floodFillLoop(img, [visited |-> visitedSet, stack |-> <<startIdx>>,
                                   region |-> <<>>])
    IN  [img |-> clearIfSmall(img, end.region, minSize),
         visited |-> end.visited,
         size |-> Len(end.region)]

\* The scan "for (let i = 0; i < canvas.width * canvas.height; i++)" from i on.
RECURSIVE removeSmallRegions(_, _, _, _)
removeSmallRegions(img, visitedSet, i, minSize) ==
    IF i >= img.width * img.height THEN img
    ELSE IF i \notin visitedSet /\ img.data[i * 4 + 3] > 0
    THEN LET r == floodFill(img, visitedSet, i, minSize)
         IN  removeSmallRegions(r.img, r.visited, i + 1, minSize)
    ELSE removeSmallRegions(img, visitedSet, i + 1, minSize)

-----------------------------------------------------------------------------
(* The onload handler of removeBackgroundColor, one action per pass *)

NoImage == [width |-> 0, height |-> 0, data |-> <<>>]
Pending == [state |-> "pending", error |-> ""]

Logged(pass, img) == Append(passLog, [pass |-> pass, img |-> img])

\* A faulty variant: the error handler going on with an empty buffer instead
\* of rejecting.
OnErrorGoingOn ==
    /\ pc = "loading"
    /\ ~source.decodable
    /\ imageData' = [width |-> source.width, height |-> source.height, data |-> source.data]
    /\ passLog' = Logged("decode", imageData')
    /\ pc' = "decoded"
    /\ UNCHANGED <<source, ctxAvailable, backgroundColor, tolerance, promise, output>>
    /\ UNCHANGED fillVars
    /\ UNCHANGED sampleVars
    /\ UNCHANGED appVars
    /\ UNCHANGED <<passVars, dbVars>>

\* img.onerror
OnError ==
    /\ pc = "loading"
    /\ ~source.decodable
    /\ pc' = "rejected"
    /\ promise' = [state |-> "rejected", error |-> "Failed to load image"]
    /\ UNCHANGED <<source, ctxAvailable, backgroundColor, tolerance, imageData, output, passLog>>
    /\ UNCHANGED fillVars
    /\ UNCHANGED sampleVars
    /\ UNCHANGED appVars
    /\ UNCHANGED <<passVars, dbVars>>

\* img.onload with no 2d context
OnLoadNoContext ==
    /\ pc = "loading"
    /\ source.decodable
    /\ ~ctxAvailable
    /\ pc' = "rejected"
    /\ promise' = [state |-> "rejected", error |-> "Failed to get canvas context"]
    /\ UNCHANGED <<source, ctxAvailable, backgroundColor, tolerance, imageData, output, passLog>>
    /\ UNCHANGED fillVars
    /\ UNCHANGED sampleVars
    /\ UNCHANGED appVars
    /\ UNCHANGED <<passVars, dbVars>>

\* img.onload up to getImageData
OnLoad ==
    /\ pc = "loading"
    /\ source.decodable
    /\ ctxAvailable
    /\ imageData' = [width |-> source.width, height |-> source.height, data |-> source.data]
    /\ passLog' = Logged("decode", imageData')
    /\ pc' = "decoded"
    /\ UNCHANGED <<source, ctxAvailable, backgroundColor, tolerance, promise, output>>
    /\ UNCHANGED fillVars
    /\ UNCHANGED sampleVars
    /\ UNCHANGED appVars
    /\ UNCHANGED <<passVars, dbVars>>

KeyPass ==
    /\ pc = "decoded"
    /\ imageData' = chromaKey(imageData, backgroundColor, tolerance)
    /\ passLog' = Logged("key", imageData')
    /\ pc' = "keyed"
    /\ UNCHANGED <<source, ctxAvailable, backgroundColor, tolerance, promise, output>>
    /\ UNCHANGED fillVars
    /\ UNCHANGED sampleVars
    /\ UNCHANGED appVars
    /\ UNCHANGED <<passVars, dbVars>>

\* A faulty variant: a single erosion before the dilations.
ErodePassOnce ==
    /\ pc = "keyed"
    /\ imageData' = erode(imageData, 1)
    /\ passLog' = Logged("erode", imageData')
    /\ pc' = "eroded2"
    /\ UNCHANGED <<source, ctxAvailable, backgroundColor, tolerance, promise, output>>
    /\ UNCHANGED fillVars
    /\ UNCHANGED sampleVars
    /\ UNCHANGED appVars
    /\ UNCHANGED <<passVars, dbVars>>

ErodePass ==
    /\ pc \in {"keyed", "eroded1"}
    /\ imageData' = erode(imageData, 1)
    /\ passLog' = Logged("erode", imageData')
    /\ pc' = IF pc = "keyed" THEN "eroded1" ELSE "eroded2"
    /\ UNCHANGED <<source, ctxAvailable, backgroundColor, tolerance, promise, output>>
    /\ UNCHANGED fillVars
    /\ UNCHANGED sampleVars
    /\ UNCHANGED appVars
    /\ UNCHANGED <<passVars, dbVars>>

DilatePass ==
    /\ pc \in {"eroded2", "dilated1"}
    /\ imageData' = dilate(imageData, 1)
    /\ passLog' = Logged("dilate", imageData')
    /\ pc' = IF pc = "eroded2" THEN "dilated1" ELSE "dilated2"
    /\ UNCHANGED <<source, ctxAvailable, backgroundColor, tolerance, promise, output>>
    /\ UNCHANGED fillVars
    /\ UNCHANGED sampleVars
    /\ UNCHANGED appVars
    /\ UNCHANGED <<passVars, dbVars>>

FilterPass ==
    /\ pc = "dilated2"
    /\ imageData' = removeSmallRegions(imageData, {}, 0, minRegionSize)
    /\ passLog' = Logged("filter", imageData')
    /\ pc' = "filtered"
    /\ UNCHANGED <<source, ctxAvailable, backgroundColor, tolerance, promise, output>>
    /\ UNCHANGED fillVars
    /\ UNCHANGED sampleVars
    /\ UNCHANGED appVars
    /\ UNCHANGED <<passVars, dbVars>>

\* ctx.putImageData(imageData, 0, 0); resolve(canvas.toDataURL('image/png'))
Resolve ==
    /\ pc = "filtered"
    /\ output' = <<imageData>>
    /\ promise' = [state |-> "resolved", error |-> ""]
    /\ pc' = "resolved"
    /\ UNCHANGED <<source, ctxAvailable, backgroundColor, tolerance, imageData, passLog>>
    /\ UNCHANGED fillVars
    /\ UNCHANGED sampleVars
    /\ UNCHANGED appVars
    /\ UNCHANGED <<passVars, dbVars>>

-----------------------------------------------------------------------------
(* The region filter step by step.                                         *)
(*                                                                         *)
(* order = "code" is the code's order: the scan takes the least pixel that *)
(* is unvisited and has alpha > 0 (the iterations of the for loop that do  *)
(* not call floodFill change nothing), and the work-list is a stack.       *)
(* order = "any" takes any such pixel as the next seed and any entry of    *)
(* the work-list: a shuffled scan and a shuffled work-list.  There the     *)
(* position of an entry in the work-list, or of a pixel in the region,     *)
(* decides nothing (any entry may be taken next, and the region is only    *)
(* counted and cleared), so both are kept sorted: one state stands for     *)
(* all the arrangements of the same entries.                               *)
(***************************************************************************)

\* s in ascending order: entry k is the value v with fewer than k entries
\* below v and at least k entries up to v.
sorted(s) ==
    [k \in 1 .. Len(s) |->
        CHOOSE v \in {s[i] : i \in 1 .. Len(s)} :
            /\ Cardinality({i \in 1 .. Len(s) : s[i] < v}) < k
            /\ Cardinality({i \in 1 .. Len(s) : s[i] <= v}) >= k]

arranged(s) == IF order = "any" THEN sorted(s) ELSE s

SeedCandidates == {i \in Pixels(imageData) : i \notin visited /\ imageData.data[i * 4 + 3] > 0}

\* for (i ...) if (!visited.has(i) && data[i*4+3] > 0) floodFill(i): up to the call
ScanSeed ==
    /\ fpc = "scan"
    /\ \E i \in SeedCandidates :
          /\ order = "code" => \A j \in SeedCandidates : i <= j
          /\ stack' = <<i>>
    /\ region' = <<>>
    /\ fpc' = "fill"
    /\ UNCHANGED <<imageData, filterSize, order, visited, seeds, marks>>
    /\ UNCHANGED pipeVars
    /\ UNCHANGED sampleVars
    /\ UNCHANGED appVars
    /\ UNCHANGED <<passVars, dbVars>>

\* one iteration of while (stack.length > 0)
FillPop ==
    /\ fpc = "fill"
    /\ stack # <<>>
    /\ \E j \in 1 .. Len(stack) :
          /\ order = "code" => j = Len(stack)
          /\ \E st \in {popStep(imageData, [visited |-> visited, stack |-> stack,
                                           region |-> region], j)} :
                /\ visited' = st.visited
                /\ \E s \in {arranged(st.stack)} : stack' = s
                /\ \E r \in {arranged(st.region)} : region' = r
                /\ marks' = [p \in DOMAIN marks |->
                               IF p \in st.visited \ visited THEN marks[p] + 1 ELSE marks[p]]
    /\ UNCHANGED <<imageData, filterSize, order, fpc, seeds>>
    /\ UNCHANGED pipeVars
    /\ UNCHANGED sampleVars
    /\ UNCHANGED appVars
    /\ UNCHANGED <<passVars, dbVars>>

\* the end of floodFill: the size test and the return
FillEnd ==
    /\ fpc = "fill"
    /\ stack = <<>>
    /\ imageData' = clearIfSmall(imageData, region, filterSize)
    /\ seeds' = Append(seeds, [size |-> Len(region), region |-> region])
    /\ fpc' = "scan"
    /\ UNCHANGED <<filterSize, order, visited, stack, region, marks>>
    /\ UNCHANGED pipeVars
    /\ UNCHANGED sampleVars
    /\ UNCHANGED appVars
    /\ UNCHANGED <<passVars, dbVars>>

\* the for loop runs out
ScanEnd ==
    /\ fpc = "scan"
    /\ SeedCandidates = {}
    /\ fpc' = "done"
    /\ UNCHANGED <<imageData, filterSize, order, visited, stack, region, seeds, marks>>
    /\ UNCHANGED pipeVars
    /\ UNCHANGED sampleVars
    /\ UNCHANGED appVars
    /\ UNCHANGED <<passVars, dbVars>>

-----------------------------------------------------------------------------
(* One call of erode or dilate, one iteration of the loop body at a time.  *)
(*                                                                         *)
(* passOrder = "code" is the code's order, y outside and x inside: the     *)
(* least pixel not yet written.  passOrder = "any" takes any pixel not yet *)
(* written: rows, tiles or single pixels in any interleaving.              *)
(***************************************************************************)

\* new ImageData(width, height): every byte 0.
newImageData(width, height) ==
    [width |-> width, height |-> height,
     data |-> [k \in 0 .. (width * height * 4 - 1) |-> 0]]

\* The body of the x loop for pixel p: three colour bytes copied, the alpha
\* byte computed, all four written to out.
loopBody(kind, img, out, p, radius) ==
    LET x == p % img.width
        y == p \div img.width
        alpha == IF kind = "erode"
                 THEN IF hasTransparentNeighbor(img, x, y, radius) THEN 0
                      ELSE img.data[p * 4 + 3]
                 ELSE maxAlpha(img, x, y, radius)
    IN  [out EXCEPT !.data =
            [k \in DOMAIN out.data |->
                IF k \div 4 # p THEN out.data[k]
                ELSE IF k % 4 < 3 THEN img.data[k]
                ELSE alpha]]

\* A faulty variant: the pass writes into the buffer it reads (a pixel that
\* was written is read back as written).
PassPixelInPlace(p) ==
    /\ ppc = "pass"
    /\ p \in Pixels(imageData) \ passDone
    /\ passOrder = "code" => \A q \in Pixels(imageData) \ passDone : p <= q
    /\ LET mixed == [imageData EXCEPT !.data =
                        [k \in DOMAIN imageData.data |->
                            IF k \div 4 \in passDone THEN passOutput.data[k]
                            ELSE imageData.data[k]]]
       IN  passOutput' = loopBody(passKind, mixed, passOutput, p, 1)
    /\ passDone' = passDone \cup {p}
    /\ UNCHANGED <<ppc, passKind, passOrder, imageData>>
    /\ UNCHANGED <<pipeVars, fillVars, sampleVars, appVars, dbVars>>

\* One iteration of the loop body of erode or dilate.
PassPixel(p) ==
    /\ ppc = "pass"
    /\ p \in Pixels(imageData) \ passDone
    /\ passOrder = "code" => \A q \in Pixels(imageData) \ passDone : p <= q
    /\ passOutput' = loopBody(passKind, imageData, passOutput, p, 1)
    /\ passDone' = passDone \cup {p}
    /\ UNCHANGED <<ppc, passKind, passOrder, imageData>>
    /\ UNCHANGED <<pipeVars, fillVars, sampleVars, appVars, dbVars>>

\* return output
PassReturn ==
    /\ ppc = "pass"
    /\ passDone = Pixels(imageData)
    /\ ppc' = "done"
    /\ UNCHANGED <<passKind, passOrder, passOutput, passDone, imageData>>
    /\ UNCHANGED <<pipeVars, fillVars, sampleVars, appVars, dbVars>>

-----------------------------------------------------------------------------
(* getContrastingColor.                                                    *)
(*                                                                         *)
(* totalBrightness is a double.  Every term (r + g + b) / 3 and every      *)
(* partial sum is a multiple of 2^-54 below 2^76 * 2^-54, so the model     *)
(* holds a double as the integer it is in units of 2^-54, in three limbs   *)
(* <<hi, mid, lo>> of 27 bits (value hi * 2^54 + mid * 2^27 + lo), and     *)
(* rounds every quotient and every sum to 53 significant bits, ties to     *)
(* even, as IEEE-754 does.                                                 *)
(***************************************************************************)

size == 100
LimbBase == 134217728

bitLength(x) == CHOOSE n \in 0 .. 27 : x < 2 ^ n /\ (n = 0 \/ x >= 2 ^ (n - 1))

significantBits(n) ==
    IF n[1] > 0 THEN 54 + bitLength(n[1])
    ELSE IF n[2] > 0 THEN 27 + bitLength(n[2])
    ELSE bitLength(n[3])

\* The limbs of hi * 2^54 + mid * 2^27 + lo, mid and lo as large as twice LimbBase.
carried(hi, mid, lo) ==
    LET m == mid + lo \div LimbBase
    IN  <<hi + m \div LimbBase, m % LimbBase, lo % LimbBase>>

\* n + frac / 3 units with the d lowest bits of n dropped, rounded to nearest,
\* a tie to even.
roundedAt(n, frac, d) ==
    IF d = 0
    THEN IF frac = 2 THEN carried(n[1], n[2], n[3] + 1) ELSE n
    ELSE LET unit == 2 ^ d
             rem == n[3] % unit
             half == unit \div 2
             up == \/ rem > half
                   \/ rem = half /\ (frac > 0 \/ (n[3] \div unit) % 2 = 1)
         IN  carried(n[1], n[2], n[3] - rem + (IF up THEN unit ELSE 0))

\* The double nearest to n + frac / 3 units, frac in 0 .. 2: the bits below
\* the 53 significant ones are dropped.  (The limbs and the number of bits
\* to drop are bound to their values, to be computed once.)
roundToDouble(n, frac) ==
    CHOOSE r \in {roundedAt(v, frac, d) :
                    v \in {n}, d \in {Max(0, significantBits(n) - 53)}} : TRUE

\* (r + g + b) / 3 for the integer s = r + g + b: s * 2^54 divided by 3 limb
\* by limb, then rounded.
brightnessOf(s) ==
    LET r2 == s % 3
        r1 == (r2 * LimbBase) % 3
        r0 == (r1 * LimbBase) % 3
    IN  roundToDouble(<<s \div 3, (r2 * LimbBase) \div 3, (r1 * LimbBase) \div 3>>, r0)

\* totalBrightness += x
plusDouble(a, b) ==
    CHOOSE r \in {roundToDouble(carried(a[1] + y[1], a[2] + y[2], a[3] + y[3]), 0) : y \in {b}} : TRUE

\* totalBrightness / (size * size) > 128.  The quotient is rounded to a double
\* too: it is above 128 iff the exact quotient is above the midpoint of 128
\* and the next double, 128 + 2^-46 (the tie goes to 128, the even one), that
\* is iff total > 128 * size * size + size * size * 2^-46.
avgBrightnessAbove128(total) ==
    \/ total[1] > 128 * size * size
    \/ /\ total[1] = 128 * size * size
       /\ total[2] > 0 \/ total[3] > size * size * 256

\* The pixel at position i of the sampled data, held as runs of equal pixels.
RECURSIVE sampleAt(_, _)
sampleAt(runs, i) ==
    IF i < runs[1].n THEN runs[1].px ELSE sampleAt(Tail(runs), i - runs[1].n)

SamplerPending == [state |-> "pending", value |-> <<>>]

\* A faulty variant: the error handler rejecting, as removeBackgroundColor's does.
defaultOnErrorRejecting == [state |-> "rejected", value |-> <<>>]

\* img.onerror = () => resolve('#00FF00')
defaultOnError == [state |-> "resolved", value |-> GREEN]

\* img.onerror.  Whether an image of zero width or height fires load or error
\* is the browser's choice.
SampleOnError ==
    /\ spc = "loading"
    /\ sample.kind \in {"undecodable", "zero-size"}
    /\ samplerPromise' = defaultOnError
    /\ spc' = "settled"
    /\ UNCHANGED <<sample, sampleCtx, samplePos, totalBrightness>>
    /\ UNCHANGED <<pipeVars, imageData, fillVars>>
    /\ UNCHANGED appVars
    /\ UNCHANGED <<passVars, dbVars>>

\* img.onload with no 2d context: resolve('#00FF00')
SampleOnLoadNoContext ==
    /\ spc = "loading"
    /\ sample.kind # "undecodable"
    /\ ~sampleCtx
    /\ samplerPromise' = [state |-> "resolved", value |-> GREEN]
    /\ spc' = "settled"
    /\ UNCHANGED <<sample, sampleCtx, samplePos, totalBrightness>>
    /\ UNCHANGED <<pipeVars, imageData, fillVars>>
    /\ UNCHANGED appVars
    /\ UNCHANGED <<passVars, dbVars>>

\* img.onload up to the brightness loop: drawImage, getImageData, totalBrightness = 0
SampleOnLoad ==
    /\ spc = "loading"
    /\ sample.kind # "undecodable"
    /\ sampleCtx
    /\ samplePos' = 0
    /\ totalBrightness' = <<0, 0, 0>>
    /\ spc' = "summing"
    /\ UNCHANGED <<sample, sampleCtx, samplerPromise>>
    /\ UNCHANGED <<pipeVars, imageData, fillVars>>
    /\ UNCHANGED appVars
    /\ UNCHANGED <<passVars, dbVars>>

\* one iteration of for (let i = 0; i < imageData.data.length; i += 4)
SampleAdd ==
    /\ spc = "summing"
    /\ samplePos < size * size
    /\ LET px == sampleAt(sample.runs, samplePos)
       IN  totalBrightness' = plusDouble(totalBrightness, brightnessOf(px[1] + px[2] + px[3]))
    /\ samplePos' = samplePos + 1
    /\ UNCHANGED <<spc, sample, sampleCtx, samplerPromise>>
    /\ UNCHANGED <<pipeVars, imageData, fillVars>>
    /\ UNCHANGED appVars
    /\ UNCHANGED <<passVars, dbVars>>

\* the loop's exit, avgBrightness and the choice of the colour
SampleResolve ==
    /\ spc = "summing"
    /\ samplePos = size * size
    /\ samplerPromise' = [state |-> "resolved",
                          value |-> IF avgBrightnessAbove128(totalBrightness)
                                    THEN MAGENTA ELSE GREEN]
    /\ spc' = "settled"
    /\ UNCHANGED <<sample, sampleCtx, samplePos, totalBrightness>>
    /\ UNCHANGED <<pipeVars, imageData, fillVars>>
    /\ UNCHANGED appVars
    /\ UNCHANGED <<passVars, dbVars>>

-----------------------------------------------------------------------------
(***************************************************************************)
(* The voice session of src/App.tsx.  A session is numbered by the call of *)
(* startSession that made it; its audio context, its script processor and  *)
(* its connect promise carry the same number.  A call of handleToolCall is  *)
(* a batch; it stands at one of its awaits between two actions.             *)
(***************************************************************************)

\* The calls of startSession and of handleToolCall a run makes, together.
MaxCalls == 3
MaxSources == 1

\* currentImageRef.current holds an image: the effect copies
\* currentHistoryItem?.data, and currentHistoryItem is history[currentIndex]
\* when currentIndex >= 0.
currentImage == currentIndex >= 0 /\ currentIndex < history

\* What starts with a click on Start: where the call stands, the history and
\* currentIndex its closures see, and the state of its input audio context.
newSession(at) ==
    [pc |-> at, history |-> history, currentIndex |-> currentIndex, ctx |-> "none"]

newBatch(s, calls) ==
    [session |-> s, calls |-> calls, next |-> 1, responses |-> <<>>,
     pc |-> "running", awaiting |-> 0]

InFlight(b) == b.pc \in {"awaitTool", "awaitHistory", "awaitSession"}

\* parseInt on the positions the model sends; 0 stands for NaN, which fails
\* num >= 1 as NaN does.
parseInt(position) ==
    CASE position = "1" -> 1
      [] position = "2" -> 2
      [] position = "3" -> 3
      [] OTHER -> 0

\* newIndex of the select_image branch (lines 449-466).
selectIndex(position, hist, cur) ==
    CASE position = "first" -> 0
      [] position = "last" -> hist - 1
      [] position = "previous" -> Max(0, cur - 1)
      [] position = "next" -> Min(hist - 1, cur + 1)
      [] OTHER -> LET num == parseInt(position)
                  IN  IF num >= 1 /\ num <= hist THEN num - 1 ELSE cur

pushed(b, result) ==
    [b EXCEPT !.responses = Append(@, [name |-> b.calls[b.next].name, result |-> result]),
              !.next = @ + 1]

\* The for loop of handleToolCall from call b.next up to its next await or
\* its end.  image is currentImageRef.current, which no render changes while
\* the loop runs; s is the session whose closure runs; idx is the last value
\* given to setCurrentIndex.
RECURSIVE advance(_, _, _, _)
advance(b, image, s, idx) ==
    IF b.next > Len(b.calls)
    THEN [batch |-> [b EXCEPT !.pc = "loopDone"], index |-> idx]
    ELSE LET c == b.calls[b.next]
         IN  CASE c.name = "generate_image" ->
                     [batch |-> [b EXCEPT !.pc = "awaitTool"], index |-> idx]
               [] c.name \in {"edit_image", "segment_image"} ->
                     IF image
                     THEN [batch |-> [b EXCEPT !.pc = "awaitTool"], index |-> idx]
                     ELSE advance(pushed(b, "no-image"), image, s, idx)
               [] c.name = "select_image" ->
                     LET newIndex == selectIndex(c.position, s.history, s.currentIndex)
                     IN  advance(pushed(b, IF newIndex >= 0 /\ newIndex < s.history
                                           THEN "ok" ELSE "error"),
                                 image, s, newIndex)
               [] c.name = "download_image" -> advance(pushed(b, "ok"), image, s, idx)
               [] OTHER -> advance([b EXCEPT !.next = @ + 1], image, s, idx)

\* Lines 508-512, after the tool response went to session s when there is one
\* to send it to.
Unmute(bs, i, s) ==
    /\ toolResponses' = IF s # 0 /\ sessions[s].pc = "open"
                        THEN Append(toolResponses, [session |-> s, batch |-> i])
                        ELSE toolResponses
    /\ isProcessingTool' = FALSE
    /\ shouldSendAudio' = TRUE
    /\ appState' = "LISTENING"
    /\ batches' = [bs EXCEPT ![i].pc = "done", ![i].awaiting = 0]

\* Where batch i of bs goes on after the loop ran up to an await or its end:
\* it waits at the await, or it waits for the pending session promise of
\* line 501, or it sends its responses and unmutes.  st, proc and send are
\* appState and the two flags as the loop left them.
Settle(bs, i, st, proc, send) ==
    IF bs[i].pc # "loopDone"
    THEN /\ batches' = bs
         /\ appState' = st
         /\ isProcessingTool' = proc
         /\ shouldSendAudio' = send
         /\ UNCHANGED toolResponses
    ELSE IF sessionPromise # 0 /\ bs[i].responses # <<>>
         THEN IF sessions[sessionPromise].pc = "connecting"
              THEN /\ batches' = [bs EXCEPT ![i].pc = "awaitSession",
                                           ![i].awaiting = sessionPromise]
                   /\ appState' = st
                   /\ isProcessingTool' = proc
                   /\ shouldSendAudio' = send
                   /\ UNCHANGED toolResponses
              ELSE Unmute(bs, i, sessionPromise)
         ELSE Unmute(bs, i, 0)

\* startSession up to its first await (lines 516-568), on a click on the
\* Start button, which is shown in IDLE and in ERROR.
StartSession ==
    /\ appState \in {"IDLE", "ERROR"}
    /\ Len(sessions) + Len(batches) < MaxCalls
    /\ \E apiKey \in BOOLEAN :
          IF ~apiKey
          THEN /\ sessions' = Append(sessions, newSession("failed"))
               /\ appState' = "ERROR"
               /\ UNCHANGED <<isProcessingTool, shouldSendAudio, inputAudioContext>>
          ELSE IF currentImage
               THEN /\ sessions' = Append(sessions, newSession("analyzing"))
                    /\ isProcessingTool' = TRUE
                    /\ shouldSendAudio' = FALSE
                    /\ appState' = "PROCESSING"
                    /\ UNCHANGED inputAudioContext
               ELSE /\ sessions' = Append(sessions, [newSession("media") EXCEPT !.ctx = "open"])
                    /\ isProcessingTool' = FALSE
                    /\ shouldSendAudio' = TRUE
                    /\ appState' = "LISTENING"
                    /\ inputAudioContext' = Len(sessions) + 1
    /\ UNCHANGED <<sessionPromise, processor, processors, sources, history, currentIndex,
                   batches, audioLog, pendingAudio, toolResponses>>
    /\ UNCHANGED <<pipeVars, imageData, fillVars, sampleVars>>
    /\ UNCHANGED <<passVars, dbVars>>

\* analyzeImageForContext returned or threw (lines 533-568): either way the
\* flags are reset and the audio contexts are made.
StartAnalyzed(i) ==
    /\ sessions[i].pc = "analyzing"
    /\ sessions' = [sessions EXCEPT ![i].pc = "media", ![i].ctx = "open"]
    /\ isProcessingTool' = FALSE
    /\ shouldSendAudio' = TRUE
    /\ inputAudioContext' = i
    /\ UNCHANGED <<appState, sessionPromise, processor, processors, sources, history,
                   currentIndex, batches, audioLog, pendingAudio, toolResponses>>
    /\ UNCHANGED <<pipeVars, imageData, fillVars, sampleVars>>
    /\ UNCHANGED <<passVars, dbVars>>

\* getUserMedia settled (lines 568-599, 707-714).  Granted, the processor is
\* made and connected and the connection is asked for.  Denied, the catch
\* sets ERROR.  When stopSession closed the context meanwhile, the browser
\* either throws at createMediaStreamSource or builds a graph that never
\* runs.
StartMedia(i, outcome) ==
    /\ sessions[i].pc = "media"
    /\ outcome = "closed" => sessions[i].ctx = "closed"
    /\ IF outcome = "granted"
       THEN /\ sessions' = [sessions EXCEPT ![i].pc = "connecting"]
            /\ processor' = i
            /\ processors' = IF sessions[i].ctx = "open" THEN processors \cup {i} ELSE processors
            /\ sessionPromise' = i
            /\ UNCHANGED appState
       ELSE /\ sessions' = [sessions EXCEPT ![i].pc = "failed"]
            /\ appState' = "ERROR"
            /\ UNCHANGED <<processor, processors, sessionPromise>>
    /\ UNCHANGED <<isProcessingTool, shouldSendAudio, inputAudioContext, sources, history,
                   currentIndex, batches, audioLog, pendingAudio, toolResponses>>
    /\ UNCHANGED <<pipeVars, imageData, fillVars, sampleVars>>
    /\ UNCHANGED <<passVars, dbVars>>

\* A chunk the audio callback hands to the promise of session s, and whether
\* a batch was being processed when the callback ran.
Chunk(s) == [session |-> s, processing |-> \E i \in DOMAIN batches : InFlight(batches[i])]

\* The connect promise of session i resolves and onopen runs (lines
\* 602-626); the audio chunks that waited on the promise are sent (585).
SessionOpen(i) ==
    /\ sessions[i].pc = "connecting"
    /\ sessions' = [sessions EXCEPT ![i].pc = "open"]
    /\ appState' = "LISTENING"
    /\ audioLog' = audioLog \cup {c \in pendingAudio : c.session = i}
    /\ pendingAudio' = {c \in pendingAudio : c.session # i}
    /\ UNCHANGED <<isProcessingTool, shouldSendAudio, sessionPromise, processor, processors,
                   inputAudioContext, sources, history, currentIndex, batches, toolResponses>>
    /\ UNCHANGED <<pipeVars, imageData, fillVars, sampleVars>>
    /\ UNCHANGED <<passVars, dbVars>>

\* onclose (lines 660-664).
SessionClose(i) ==
    /\ sessions[i].pc = "open"
    /\ sessions' = [sessions EXCEPT ![i].pc = "closed"]
    /\ appState' = "IDLE"
    /\ sessionPromise' = 0
    /\ UNCHANGED <<isProcessingTool, shouldSendAudio, processor, processors, inputAudioContext,
                   sources, history, currentIndex, batches, audioLog, pendingAudio,
                   toolResponses>>
    /\ UNCHANGED <<pipeVars, imageData, fillVars, sampleVars>>
    /\ UNCHANGED <<passVars, dbVars>>

\* onerror (lines 665-673); the promise of a connection that never opened is
\* rejected and the chunks that waited on it are dropped (586-588).
SessionError(i) ==
    /\ sessions[i].pc \in {"connecting", "open"}
    /\ sessions' = [sessions EXCEPT ![i].pc = IF @ = "open" THEN "closed" ELSE "failed"]
    /\ appState' = "ERROR"
    /\ sessionPromise' = 0
    /\ pendingAudio' = {c \in pendingAudio : c.session # i}
    /\ UNCHANGED <<isProcessingTool, shouldSendAudio, processor, processors, inputAudioContext,
                   sources, history, currentIndex, batches, audioLog, toolResponses>>
    /\ UNCHANGED <<pipeVars, imageData, fillVars, sampleVars>>
    /\ UNCHANGED <<passVars, dbVars>>

\* stopSession (lines 717-742), on a click on the Stop button, which is
\* shown in every state but IDLE and ERROR.  The session is not closed and
\* no batch is cancelled.
StopSession ==
    /\ appState \notin {"IDLE", "ERROR"}
    /\ processors' = processors \ {processor, inputAudioContext}
    /\ processor' = 0
    /\ sessions' = [i \in DOMAIN sessions |->
                      IF i = inputAudioContext THEN [sessions[i] EXCEPT !.ctx = "closed"]
                      ELSE sessions[i]]
    /\ inputAudioContext' = 0
    /\ isProcessingTool' = FALSE
    /\ shouldSendAudio' = TRUE
    /\ sessionPromise' = 0
    /\ appState' = "IDLE"
    /\ UNCHANGED <<sources, history, currentIndex, batches, audioLog, pendingAudio,
                   toolResponses>>
    /\ UNCHANGED <<pipeVars, imageData, fillVars, sampleVars>>
    /\ UNCHANGED <<passVars, dbVars>>

\* processor.onaudioprocess (lines 574-590) with a chunk the callback does
\* not drop: the chunk goes to the session of sessionPromiseRef, at once
\* when the promise is resolved, else when it resolves.
AudioProcess(p) ==
    /\ p \in processors
    /\ shouldSendAudio
    /\ sessionPromise # 0
    /\ CASE sessions[sessionPromise].pc = "open" ->
               /\ audioLog' = audioLog \cup {Chunk(sessionPromise)}
               /\ UNCHANGED pendingAudio
         [] sessions[sessionPromise].pc = "connecting" ->
               /\ pendingAudio' = pendingAudio \cup {Chunk(sessionPromise)}
               /\ UNCHANGED audioLog
         [] OTHER -> UNCHANGED <<audioLog, pendingAudio>>
    /\ UNCHANGED <<appState, isProcessingTool, shouldSendAudio, sessionPromise, processor,
                   processors, inputAudioContext, sources, history, currentIndex, sessions,
                   batches, toolResponses>>
    /\ UNCHANGED <<pipeVars, imageData, fillVars, sampleVars>>
    /\ UNCHANGED <<passVars, dbVars>>

\* onmessage with a tool call (lines 649-651) and handleToolCall up to its
\* first await (351-506): skipped while a batch is being processed, else the
\* microphone is muted and the loop starts.
ToolCall(s, calls) ==
    /\ sessions[s].pc = "open"
    /\ Len(sessions) + Len(batches) < MaxCalls
    /\ IF isProcessingTool
       THEN /\ batches' = Append(batches, [newBatch(s, calls) EXCEPT !.pc = "skipped"])
            /\ UNCHANGED <<appState, isProcessingTool, shouldSendAudio, toolResponses,
                           currentIndex>>
       ELSE LET run == advance(newBatch(s, calls), currentImage, sessions[s], currentIndex)
            IN  /\ currentIndex' = run.index
                /\ Settle(Append(batches, run.batch), Len(batches) + 1,
                          "PROCESSING", TRUE, FALSE)
    /\ UNCHANGED <<sessionPromise, processor, processors, inputAudioContext, sources, history,
                   sessions, audioLog, pendingAudio>>
    /\ UNCHANGED <<pipeVars, imageData, fillVars, sampleVars>>
    /\ UNCHANGED <<passVars, dbVars>>

\* generateImage, editImage or segmentImage returned an image: addToHistory
\* appends it and selects it, and waits for saveHistoryItem (lines 320-328).
ToolReturns(i) ==
    /\ batches[i].pc = "awaitTool"
    /\ history' = history + 1
    /\ currentIndex' = history
    /\ batches' = [batches EXCEPT ![i].pc = "awaitHistory"]
    /\ UNCHANGED <<appState, isProcessingTool, shouldSendAudio, sessionPromise, processor,
                   processors, inputAudioContext, sources, sessions, audioLog, pendingAudio,
                   toolResponses>>
    /\ UNCHANGED <<pipeVars, imageData, fillVars, sampleVars>>
    /\ UNCHANGED <<passVars, dbVars>>

\* A faulty variant: no catch around the call, the exception ends
\* handleToolCall where it stands.
ToolThrowsUncaught(i) ==
    /\ batches[i].pc = "awaitTool"
    /\ batches' = [batches EXCEPT ![i].pc = "thrown"]
    /\ UNCHANGED <<appState, isProcessingTool, shouldSendAudio, toolResponses, currentIndex>>
    /\ UNCHANGED <<sessionPromise, processor, processors, inputAudioContext, sources, history,
                   sessions, audioLog, pendingAudio>>
    /\ UNCHANGED <<pipeVars, imageData, fillVars, sampleVars>>
    /\ UNCHANGED <<passVars, dbVars>>

\* generateImage, editImage or segmentImage threw: the catch of lines
\* 486-496 pushes an error response and the loop goes on.
ToolThrows(i) ==
    /\ batches[i].pc = "awaitTool"
    /\ LET run == advance(pushed(batches[i], "error"), currentImage,
                          sessions[batches[i].session], currentIndex)
       IN  /\ currentIndex' = run.index
           /\ Settle([batches EXCEPT ![i] = run.batch], i,
                     appState, isProcessingTool, shouldSendAudio)
    /\ UNCHANGED <<sessionPromise, processor, processors, inputAudioContext, sources, history,
                   sessions, audioLog, pendingAudio>>
    /\ UNCHANGED <<pipeVars, imageData, fillVars, sampleVars>>
    /\ UNCHANGED <<passVars, dbVars>>

\* saveHistoryItem settled (addToHistory catches its failure): the success
\* response is pushed and the loop goes on.
HistorySaved(i) ==
    /\ batches[i].pc = "awaitHistory"
    /\ LET run == advance(pushed(batches[i], "ok"), currentImage,
                          sessions[batches[i].session], currentIndex)
       IN  /\ currentIndex' = run.index
           /\ Settle([batches EXCEPT ![i] = run.batch], i,
                     appState, isProcessingTool, shouldSendAudio)
    /\ UNCHANGED <<sessionPromise, processor, processors, inputAudioContext, sources, history,
                   sessions, audioLog, pendingAudio>>
    /\ UNCHANGED <<pipeVars, imageData, fillVars, sampleVars>>
    /\ UNCHANGED <<passVars, dbVars>>

\* The session promise batch i waits for at line 501 settled.
SessionAwaited(i) ==
    /\ batches[i].pc = "awaitSession"
    /\ sessions[batches[i].awaiting].pc # "connecting"
    /\ Unmute(batches, i, batches[i].awaiting)
    /\ UNCHANGED <<sessionPromise, processor, processors, inputAudioContext, sources, history,
                   currentIndex, sessions, audioLog, pendingAudio>>
    /\ UNCHANGED <<pipeVars, imageData, fillVars, sampleVars>>
    /\ UNCHANGED <<passVars, dbVars>>

\* onmessage with audio of the model (lines 628-647).
ServerAudio(s) ==
    /\ sessions[s].pc = "open"
    /\ sources < MaxSources
    /\ appState' = "SPEAKING"
    /\ sources' = sources + 1
    /\ UNCHANGED <<isProcessingTool, shouldSendAudio, sessionPromise, processor, processors,
                   inputAudioContext, history, currentIndex, sessions, batches, audioLog,
                   pendingAudio, toolResponses>>
    /\ UNCHANGED <<pipeVars, imageData, fillVars, sampleVars>>
    /\ UNCHANGED <<passVars, dbVars>>

\* sourceNode.onended (lines 640-643).
PlaybackEnded ==
    /\ sources > 0
    /\ sources' = sources - 1
    /\ appState' = IF sources = 1 THEN "LISTENING" ELSE appState
    /\ UNCHANGED <<isProcessingTool, shouldSendAudio, sessionPromise, processor, processors,
                   inputAudioContext, history, currentIndex, sessions, batches, audioLog,
                   pendingAudio, toolResponses>>
    /\ UNCHANGED <<pipeVars, imageData, fillVars, sampleVars>>
    /\ UNCHANGED <<passVars, dbVars>>

\* onmessage with serverContent.interrupted (lines 653-658).
Interrupted(s) ==
    /\ sessions[s].pc = "open"
    /\ sources' = 0
    /\ appState' = "LISTENING"
    /\ UNCHANGED <<isProcessingTool, shouldSendAudio, sessionPromise, processor, processors,
                   inputAudioContext, history, currentIndex, sessions, batches, audioLog,
                   pendingAudio, toolResponses>>
    /\ UNCHANGED <<pipeVars, imageData, fillVars, sampleVars>>
    /\ UNCHANGED <<passVars, dbVars>>

-----------------------------------------------------------------------------
(* Inputs *)

GreenPx == <<0, 255, 0, 255>>
RedPx == <<255, 0, 0, 255>>
HalfRedPx == <<255, 0, 0, 100>>
FeatherPx == <<0, 195, 0, 255>>
ClearPx == <<0, 0, 0, 0>>

Undecodable == [decodable |-> FALSE, width |-> 0, height |-> 0, data |-> <<>>]

SourceOf(w, h, px) ==
    LET img == ImageOf(w, h, px)
    IN  [decodable |-> TRUE, width |-> w, height |-> h, data |-> img.data]

Input(src, color, t) ==
    [source |-> src, backgroundColor |-> color, tolerance |-> t, ctxAvailable |-> TRUE]

\* The inputs on which the handler does not reach the passes: an image that
\* does not decode, and a canvas that gives no 2d context.
FailingInputs ==
    {[source |-> Undecodable, backgroundColor |-> GREEN, tolerance |-> 50, ctxAvailable |-> c] :
        c \in BOOLEAN}
    \cup {[source |-> SourceOf(1, 1, [p \in {0} |-> px]), backgroundColor |-> GREEN,
           tolerance |-> 50, ctxAvailable |-> FALSE] : px \in {RedPx, GreenPx}}

\* The 10x10 green image with red at the pixels of reds.
GreenWithRed(reds) == SourceOf(10, 10, [p \in 0 .. 99 |-> IF p \in reds THEN RedPx ELSE GreenPx])
CentreSquare == {44, 45, 54, 55}
ScenarioInputs ==
    {Input(GreenWithRed(CentreSquare), GREEN, 50)} \cup
    {Input(GreenWithRed({p}), GREEN, 50) : p \in 0 .. 99}

\* A GridW x GridH image of one base pixel with up to two other pixels, the
\* second one at, right of or below the first.
GridW == 8
GridH == 7
GridInputs ==
    {Input(SourceOf(GridW, GridH,
                    [p \in 0 .. (GridW * GridH - 1) |->
                        IF p = p1 THEN s1 ELSE IF p = p1 + d THEN s2 ELSE base]),
           GREEN, 50) :
        p1 \in 0 .. (GridW * GridH - 1), d \in {0, 1, GridW},
        s1 \in {GreenPx, FeatherPx, ClearPx, HalfRedPx, RedPx},
        s2 \in {GreenPx, FeatherPx, ClearPx, HalfRedPx, RedPx},
        base \in {RedPx, GreenPx}}

\* A StripeW x StripeH image: red columns, then green columns from column a
\* on, then red columns from column b on.
StripeW == 16
StripeH == 5
StripeInputs ==
    {Input(SourceOf(StripeW, StripeH,
                    [p \in 0 .. (StripeW * StripeH - 1) |->
                        IF p % StripeW >= a /\ p % StripeW < b THEN GreenPx ELSE RedPx]),
           GREEN, 50) :
        a \in 0 .. StripeW, b \in 0 .. StripeW}

\* A green GridW x GridH image with a red rectangle, columns x0 .. x1 and rows
\* y0 .. y1: of the rectangles five pixels wide and high or more, two erosions
\* leave a part.
BlockInputs ==
    {Input(SourceOf(GridW, GridH,
                    [p \in 0 .. (GridW * GridH - 1) |->
                        IF /\ p % GridW >= x0 /\ p % GridW <= x1
                           /\ p \div GridW >= y0 /\ p \div GridW <= y1
                        THEN RedPx ELSE GreenPx]),
           GREEN, 50) :
        x0 \in 0 .. (GridW - 5), x1 \in 4 .. (GridW - 1),
        y0 \in 0 .. (GridH - 5), y1 \in 4 .. (GridH - 1)}

Tolerances == {1, 4, 10, 50}
KeyAlphas == {0, 100, 255}

\* The two key colours as RGB triples, written out.
keyRGB(color) == IF color = GREEN THEN <<0, 255, 0>> ELSE <<255, 0, 255>>

\* A red GridW x GridH image with one pixel of the key colour, of any prior
\* alpha, for both key colours and several tolerances.
KeyGridInputs ==
    {Input(SourceOf(GridW, GridH,
                    [p \in 0 .. (GridW * GridH - 1) |->
                        IF p = p1
                        THEN <<keyRGB(color)[1], keyRGB(color)[2], keyRGB(color)[3], a>>
                        ELSE RedPx]),
           color, t) :
        p1 \in 0 .. (GridW * GridH - 1), a \in KeyAlphas,
        color \in {GREEN, MAGENTA}, t \in Tolerances}

PipeInputs ==
    ScenarioInputs \cup GridInputs \cup StripeInputs \cup BlockInputs \cup KeyGridInputs
    \cup FailingInputs

\* One-pixel images around the key colour: each channel dr, dg, db away from
\* the key's, for both key colours and several tolerances.
KeyDeltas == {0, 1, 3, 4, 12, 25, 30, 40, 60}
away(c, d) == IF c = 0 THEN d ELSE c - d
KeyInputs ==
    {Input(SourceOf(1, 1, [p \in {0} |->
                <<away(keyRGB(color)[1], dr), away(keyRGB(color)[2], dg),
                  away(keyRGB(color)[3], db), a>>]), color, t) :
        dr \in KeyDeltas, dg \in KeyDeltas, db \in KeyDeltas, a \in KeyAlphas,
        color \in {GREEN, MAGENTA}, t \in Tolerances}
    \cup FailingInputs

FillIdle ==
    /\ filterSize = minRegionSize
    /\ order = "code"
    /\ fpc = "idle"
    /\ visited = {}
    /\ stack = <<>>
    /\ region = <<>>
    /\ seeds = <<>>
    /\ marks = <<>>

PassIdle ==
    /\ ppc = "idle"
    /\ passKind = "erode"
    /\ passOrder = "code"
    /\ passOutput = NoImage
    /\ passDone = {}

NoTransaction ==
    [state |-> "none", sessionId |-> "", queue |-> <<>>, position |-> 0,
     before |-> [history |-> {}, sessions |-> {}]]

DbIdle ==
    /\ historyStore = {}
    /\ sessionsStore = {}
    /\ transaction = NoTransaction
    /\ deletePromise = "none"

AppIdle ==
    /\ appState = "IDLE"
    /\ isProcessingTool = FALSE
    /\ shouldSendAudio = TRUE
    /\ sessionPromise = 0
    /\ processor = 0
    /\ processors = {}
    /\ inputAudioContext = 0
    /\ sources = 0
    /\ history = 0
    /\ currentIndex = -1
    /\ sessions = <<>>
    /\ batches = <<>>
    /\ audioLog = {}
    /\ pendingAudio = {}
    /\ toolResponses = <<>>

SampleIdle ==
    /\ spc = "idle"
    /\ sample = [kind |-> "none", runs |-> <<>>]
    /\ sampleCtx = TRUE
    /\ samplePos = 0
    /\ totalBrightness = <<0, 0, 0>>
    /\ samplerPromise = SamplerPending

InitPipe(inputs) ==
    /\ \E in \in inputs :
          /\ source = in.source
          /\ backgroundColor = in.backgroundColor
          /\ tolerance = in.tolerance
          /\ ctxAvailable = in.ctxAvailable
    /\ pc = "loading"
    /\ imageData = NoImage
    /\ promise = Pending
    /\ output = <<>>
    /\ passLog = <<>>
    /\ FillIdle
    /\ SampleIdle
    /\ AppIdle
    /\ PassIdle
    /\ DbIdle

Init == InitPipe(PipeInputs)

Next ==
    \/ OnError
    \/ OnLoadNoContext
    \/ OnLoad
    \/ KeyPass
    \/ ErodePass
    \/ DilatePass
    \/ FilterPass
    \/ Resolve

Spec == Init /\ [][Next]_vars

\* The keying rule on single pixels.
InitKey == InitPipe(KeyInputs)
SpecKey == InitKey /\ [][Next]_vars

\* The handler called with a tolerance that is not above 0, on two-pixel images.
NonPositiveTolerances == {0, -1, -50}
ConfigInputs ==
    {Input(SourceOf(2, 1, [p \in 0 .. 1 |-> IF p = 0 THEN a ELSE b]), color, t) :
        a \in {GreenPx, RedPx, FeatherPx, HalfRedPx},
        b \in {GreenPx, RedPx, FeatherPx, HalfRedPx},
        color \in {GREEN, MAGENTA}, t \in NonPositiveTolerances}
    \cup FailingInputs
InitConfig == InitPipe(ConfigInputs)
SpecConfig == InitConfig /\ [][Next]_vars

-----------------------------------------------------------------------------
(* The region filter alone, on every alpha map of a two-row image FillW     *)
(* pixels wide, for the thresholds 1, 2 and FillW and the code's own.       *)

FillW == 3
FilterSizes == {1, 2, FillW, minRegionSize}

\* Opaque pixels alternate between alpha 255 and alpha 100.
FillSources ==
    {SourceOf(FillW, 2,
              [p \in 0 .. (FillW * 2 - 1) |->
                  IF p \in S THEN (IF p % 2 = 0 THEN RedPx ELSE HalfRedPx) ELSE ClearPx]) :
        S \in SUBSET (0 .. (FillW * 2 - 1))}

InitFill ==
    /\ source \in FillSources
    /\ backgroundColor = GREEN
    /\ tolerance = 50
    /\ ctxAvailable = TRUE
    /\ pc = "dilated2"
    /\ imageData = [width |-> source.width, height |-> source.height, data |-> source.data]
    /\ promise = Pending
    /\ output = <<>>
    /\ passLog = <<>>
    /\ filterSize \in FilterSizes
    /\ order \in {"code", "any"}
    /\ fpc = "scan"
    /\ visited = {}
    /\ stack = <<>>
    /\ region = <<>>
    /\ seeds = <<>>
    /\ marks = [p \in 0 .. (FillW * 2 - 1) |-> 0]
    /\ SampleIdle
    /\ AppIdle
    /\ PassIdle
    /\ DbIdle

FillNext ==
    \/ ScanSeed
    \/ FillPop
    \/ FillEnd
    \/ ScanEnd

SpecFill == InitFill /\ [][FillNext]_vars

\* removeBackgroundColor is one synchronous call: the loops of lines 196-235
\* take their next step as long as there is one.
SpecFillFair == InitFill /\ [][FillNext]_vars /\ WF_vars(FillNext)

-----------------------------------------------------------------------------
(* getContrastingColor alone.  The sampled data is given as the canvas     *)
(* reads it: size * size pixels, here two runs of equal pixels.            *)

GreyPx == <<128, 128, 128, 255>>
GreyUpPx == <<128, 128, 129, 255>>
GreyDownPx == <<128, 128, 127, 255>>
WhitePx == <<255, 255, 255, 255>>
BlackPx == <<0, 0, 0, 255>>

Sampled(runs) == [kind |-> "image", runs |-> runs]

\* What the canvas reads when drawImage drew nothing.
ZeroSize == [kind |-> "zero-size", runs |-> <<[n |-> size * size, px |-> ClearPx]>>]

SamplePixels == {GreyDownPx, GreyPx, GreyUpPx, WhitePx}
SampleSplits == {1, (size * size) \div 2}

SampleSources ==
    {Sampled(<<[n |-> k, px |-> a], [n |-> size * size - k, px |-> b]>>) :
        a \in SamplePixels, b \in SamplePixels, k \in SampleSplits}
    \cup {Sampled(<<[n |-> size * size, px |-> BlackPx]>>)}

\* The inputs on which sampling fails, and a white image to compare with.
SampleFailureInputs ==
    {[sample |-> src, ctx |-> c] :
        src \in {[kind |-> "undecodable", runs |-> <<>>], ZeroSize,
                 Sampled(<<[n |-> size * size, px |-> WhitePx]>>)},
        c \in BOOLEAN}

SampleInputs == {[sample |-> src, ctx |-> TRUE] : src \in SampleSources} \cup SampleFailureInputs

InitSampleOn(inputs) ==
    /\ source = Undecodable
    /\ backgroundColor = GREEN
    /\ tolerance = 50
    /\ ctxAvailable = TRUE
    /\ pc = "idle"
    /\ imageData = NoImage
    /\ promise = Pending
    /\ output = <<>>
    /\ passLog = <<>>
    /\ FillIdle
    /\ \E in \in inputs :
          /\ sample = in.sample
          /\ sampleCtx = in.ctx
    /\ spc = "loading"
    /\ samplePos = 0
    /\ totalBrightness = <<0, 0, 0>>
    /\ samplerPromise = SamplerPending
    /\ AppIdle
    /\ PassIdle
    /\ DbIdle

SampleNext ==
    \/ SampleOnError
    \/ SampleOnLoadNoContext
    \/ SampleOnLoad
    \/ SampleAdd
    \/ SampleResolve

InitSample == InitSampleOn(SampleInputs)
SpecSample == InitSample /\ [][SampleNext]_vars

\* Once img.src is set the browser fires load or error, and a handler that
\* started runs to its end.
InitSampleFailure == InitSampleOn(SampleFailureInputs)
SpecSampleFair == InitSampleFailure /\ [][SampleNext]_vars /\ WF_vars(SampleNext)

\* The tool calls the model sends in one message.
Call(name) == [name |-> name, position |-> ""]
Select(position) == [name |-> "select_image", position |-> position]
CallBatches ==
    { <<Call("generate_image")>>,
      <<Call("edit_image")>>,
      <<Call("segment_image"), Call("download_image")>>,
      <<Select("last"), Call("generate_image")>>,
      <<Call("unknown")>> }

\* The images uploaded before the first session (handleFileUpload calls
\* addToHistory, which selects the new image).
Uploads == {0, 1}

\* The page before the first click on Start: no session, the uploaded images
\* in the history; the matting core and the sampler at rest.
InitApp ==
    /\ source = Undecodable
    /\ backgroundColor = GREEN
    /\ tolerance = 50
    /\ ctxAvailable = TRUE
    /\ pc = "idle"
    /\ imageData = NoImage
    /\ promise = Pending
    /\ output = <<>>
    /\ passLog = <<>>
    /\ FillIdle
    /\ SampleIdle
    /\ PassIdle
    /\ DbIdle
    /\ \E n \in Uploads :
          /\ history = n
          /\ currentIndex = n - 1
    /\ appState = "IDLE"
    /\ isProcessingTool = FALSE
    /\ shouldSendAudio = TRUE
    /\ sessionPromise = 0
    /\ processor = 0
    /\ processors = {}
    /\ inputAudioContext = 0
    /\ sources = 0
    /\ sessions = <<>>
    /\ batches = <<>>
    /\ audioLog = {}
    /\ pendingAudio = {}
    /\ toolResponses = <<>>

AppNext ==
    \/ StartSession
    \/ \E i \in DOMAIN sessions : StartAnalyzed(i)
    \/ \E i \in DOMAIN sessions, outcome \in {"granted", "denied", "closed"} :
          StartMedia(i, outcome)
    \/ \E i \in DOMAIN sessions : SessionOpen(i)
    \/ \E i \in DOMAIN sessions : SessionClose(i)
    \/ \E i \in DOMAIN sessions : SessionError(i)
    \/ StopSession
    \/ \E p \in processors : AudioProcess(p)
    \/ \E s \in DOMAIN sessions, calls \in CallBatches : ToolCall(s, calls)
    \/ \E i \in DOMAIN batches : ToolReturns(i)
    \/ \E i \in DOMAIN batches : ToolThrows(i)
    \/ \E i \in DOMAIN batches : HistorySaved(i)
    \/ \E i \in DOMAIN batches : SessionAwaited(i)
    \/ \E s \in DOMAIN sessions : ServerAudio(s)
    \/ PlaybackEnded
    \/ \E s \in DOMAIN sessions : Interrupted(s)

SpecApp == InitApp /\ [][AppNext]_vars

\* What is waited for comes: analyzeImageForContext, the tool functions,
\* saveHistoryItem and the connect promise each return or fail.
AppFairness ==
    /\ \A i \in 1 .. MaxCalls :
          /\ WF_vars(i \in DOMAIN batches /\ (ToolReturns(i) \/ ToolThrows(i)))
          /\ WF_vars(i \in DOMAIN batches /\ HistorySaved(i))
          /\ WF_vars(i \in DOMAIN batches /\ SessionAwaited(i))
          /\ WF_vars(i \in DOMAIN sessions /\ StartAnalyzed(i))
          /\ WF_vars(i \in DOMAIN sessions /\ sessions[i].pc = "connecting"
                        /\ (SessionOpen(i) \/ SessionError(i)))

\* The steps of the application but onaudioprocess, which writes nothing a
\* tool-call batch reads.
AppNextSilent ==
    \/ StartSession
    \/ \E i \in DOMAIN sessions : StartAnalyzed(i)
    \/ \E i \in DOMAIN sessions, outcome \in {"granted", "denied", "closed"} :
          StartMedia(i, outcome)
    \/ \E i \in DOMAIN sessions : SessionOpen(i)
    \/ \E i \in DOMAIN sessions : SessionClose(i)
    \/ \E i \in DOMAIN sessions : SessionError(i)
    \/ StopSession
    \/ \E s \in DOMAIN sessions, calls \in CallBatches : ToolCall(s, calls)
    \/ \E i \in DOMAIN batches : ToolReturns(i)
    \/ \E i \in DOMAIN batches : ToolThrows(i)
    \/ \E i \in DOMAIN batches : HistorySaved(i)
    \/ \E i \in DOMAIN batches : SessionAwaited(i)
    \/ \E s \in DOMAIN sessions : ServerAudio(s)
    \/ PlaybackEnded
    \/ \E s \in DOMAIN sessions : Interrupted(s)

SpecAppFair == InitApp /\ [][AppNextSilent]_vars /\ AppFairness

-----------------------------------------------------------------------------
(* One erosion or dilation alone, on every alpha map of a two-row image    *)
(* FillW pixels wide.                                                      *)

InitPass ==
    /\ source \in FillSources
    /\ backgroundColor = GREEN
    /\ tolerance = 50
    /\ ctxAvailable = TRUE
    /\ passKind \in {"erode", "dilate"}
    /\ pc = IF passKind = "erode" THEN "keyed" ELSE "eroded2"
    /\ imageData = [width |-> source.width, height |-> source.height, data |-> source.data]
    /\ promise = Pending
    /\ output = <<>>
    /\ passLog = <<>>
    /\ passOrder \in {"code", "any"}
    /\ ppc = "pass"
    /\ passOutput = newImageData(source.width, source.height)
    /\ passDone = {}
    /\ FillIdle
    /\ SampleIdle
    /\ AppIdle
    /\ DbIdle

PassNext ==
    \/ \E p \in Pixels(imageData) : PassPixel(p)
    \/ PassReturn

SpecPass == InitPass /\ [][PassNext]_vars

-----------------------------------------------------------------------------
(* dbService: the two object stores and deleteSession, one request at a    *)
(* time.                                                                   *)
(*                                                                         *)
(* historyStore holds the records of the 'history' store (keyPath 'id'),   *)
(* sessionsStore those of the 'sessions' store (keyPath 'sessionId');      *)
(* createdAt and updatedAt of a session record are left out.  A readwrite  *)
(* transaction has the stores of its scope to itself until it is finished, *)
(* so saveHistoryItem and saveSessionName, one put each, run before or     *)
(* after a deleteSession, never in between its requests.  A transaction    *)
(* executes its requests in the order they were placed and commits when    *)
(* none is left; an abort puts the stores back as they were.               *)
(***************************************************************************)

MaxItems == 3
ItemIds == 1 .. MaxItems
SessionIds == {"a", "b"}
Timestamps == {1, 2}
Names == {"", "Trip"}

\* store.put(record): the record takes the place of the one with its key.
putItem(store, item) == {i \in store : i.id # item.id} \cup {item}
putSession(store, session) == {m \in store : m.sessionId # session.sessionId} \cup {session}

\* A faulty variant: the cursor runs over the whole index, not one key.
cursorOverAll(store, sid, position) ==
    LET left == {i.id : i \in {j \in store : j.id > position}}
    IN  IF left = {} THEN 0 ELSE CHOOSE k \in left : \A m \in left : k <= m

\* historyIndex.openCursor(IDBKeyRange.only(sessionId)) and cursor.continue():
\* the primary key of the next record of the index with this sessionId, in
\* the order of the primary keys, 0 for a null cursor.
cursorOver(store, sid, position) ==
    LET left == {i.id : i \in {j \in store : j.sessionId = sid /\ j.id > position}}
    IN  IF left = {} THEN 0 ELSE CHOOSE k \in left : \A m \in left : k <= m

\* items.sort((a, b) => a.timestamp - b.timestamp) on what getAll returned in
\* the order of the primary keys: a stable sort.
byTimestamp(items) ==
    IF items = {} THEN <<>>
    ELSE CHOOSE s \in [1 .. Cardinality(items) -> items] :
            /\ \A m, n \in DOMAIN s : m # n => s[m] # s[n]
            /\ \A m, n \in DOMAIN s :
                  m < n => \/ s[m].timestamp < s[n].timestamp
                           \/ s[m].timestamp = s[n].timestamp /\ s[m].id < s[n].id

getSessionItems(sid) == byTimestamp({i \in historyStore : i.sessionId = sid})

getSessionName(sid) ==
    IF \E m \in sessionsStore : m.sessionId = sid
    THEN (CHOOSE m \in sessionsStore : m.sessionId = sid).name
    ELSE ""

\* One entry of getAllSessions: sessionsMap's list for the session, sorted.
summary(sid) ==
    LET sessionItems == getSessionItems(sid)
    IN  [sessionId |-> sid,
         name |-> IF getSessionName(sid) = "" THEN "Untitled Session" ELSE getSessionName(sid),
         startTime |-> sessionItems[1].timestamp,
         itemCount |-> Len(sessionItems),
         previewImage |-> sessionItems[Len(sessionItems)].id]

\* The key of the first record of a session in historyStore.getAll(): the
\* place of the session in sessionsMap.
firstKey(sid) ==
    CHOOSE k \in {i.id : i \in {j \in historyStore : j.sessionId = sid}} :
        \A i \in historyStore : i.sessionId = sid => k <= i.id

\* getAllSessions: one summary for each sessionId that has a history record,
\* latest start first, sessions of equal start in the order of sessionsMap.
getAllSessions ==
    LET sids == {i.sessionId : i \in historyStore}
    IN  IF sids = {} THEN <<>>
        ELSE CHOOSE s \in [1 .. Cardinality(sids) -> {summary(sid) : sid \in sids}] :
                /\ \A m, n \in DOMAIN s : m # n => s[m] # s[n]
                /\ \A m, n \in DOMAIN s :
                      m < n => \/ s[m].startTime > s[n].startTime
                               \/ /\ s[m].startTime = s[n].startTime
                                  /\ firstKey(s[m].sessionId) < firstKey(s[n].sessionId)

Locked == transaction.state = "active"

\* saveHistoryItem(item): store.put(item)
SaveHistoryItem(item) ==
    /\ ~Locked
    /\ historyStore' = putItem(historyStore, item)
    /\ transaction' = NoTransaction
    /\ UNCHANGED <<sessionsStore, deletePromise>>
    /\ UNCHANGED <<pipeVars, imageData, fillVars, sampleVars, appVars, passVars>>

\* saveSessionName(sessionId, name): store.get, then store.put
SaveSessionName(sid, name) ==
    /\ ~Locked
    /\ sessionsStore' = putSession(sessionsStore, [sessionId |-> sid, name |-> name])
    /\ transaction' = NoTransaction
    /\ UNCHANGED <<historyStore, deletePromise>>
    /\ UNCHANGED <<pipeVars, imageData, fillVars, sampleVars, appVars, passVars>>

\* deleteSession(sessionId) up to the end of the promise's executor: the
\* transaction over both stores with its first two requests placed.
DeleteSession(sid) ==
    /\ ~Locked
    /\ transaction' = [state |-> "active", sessionId |-> sid,
                       queue |-> <<"openCursor", "delete">>, position |-> 0,
                       before |-> [history |-> historyStore, sessions |-> sessionsStore]]
    /\ deletePromise' = "pending"
    /\ UNCHANGED <<historyStore, sessionsStore>>
    /\ UNCHANGED <<pipeVars, imageData, fillVars, sampleVars, appVars, passVars>>

\* The transaction executes its next request.  For the cursor's request
\* historyRequest.onsuccess runs with the result: cursor.delete() and
\* cursor.continue() place two more requests when the cursor is not null.
DbRequest ==
    /\ Locked
    /\ transaction.queue # <<>>
    /\ LET request == Head(transaction.queue)
           rest == Tail(transaction.queue)
       IN  \/ /\ request \in {"openCursor", "continue"}
              /\ \E k \in {cursorOver(historyStore, transaction.sessionId, transaction.position)} :
                    transaction' =
                        [transaction EXCEPT
                            !.position = k,
                            !.queue = IF k # 0 THEN rest \o <<"cursor.delete", "continue">>
                                      ELSE rest]
              /\ UNCHANGED <<historyStore, sessionsStore>>
           \/ /\ request = "cursor.delete"
              /\ historyStore' = {i \in historyStore : i.id # transaction.position}
              /\ transaction' = [transaction EXCEPT !.queue = rest]
              /\ UNCHANGED sessionsStore
           \/ /\ request = "delete"
              /\ sessionsStore' = {m \in sessionsStore : m.sessionId # transaction.sessionId}
              /\ transaction' = [transaction EXCEPT !.queue = rest]
              /\ UNCHANGED historyStore
    /\ UNCHANGED deletePromise
    /\ UNCHANGED <<pipeVars, imageData, fillVars, sampleVars, appVars, passVars>>

\* No request is left: the transaction commits; transaction.oncomplete
DbComplete ==
    /\ Locked
    /\ transaction.queue = <<>>
    /\ transaction' = [transaction EXCEPT !.state = "complete"]
    /\ deletePromise' = "resolved"
    /\ UNCHANGED <<historyStore, sessionsStore>>
    /\ UNCHANGED <<pipeVars, imageData, fillVars, sampleVars, appVars, passVars>>

\* A request fails: the error reaches transaction.onerror and the
\* transaction aborts, which undoes what its requests did.
DbError ==
    /\ Locked
    /\ transaction.queue # <<>>
    /\ historyStore' = transaction.before.history
    /\ sessionsStore' = transaction.before.sessions
    /\ transaction' = [transaction EXCEPT !.state = "aborted", !.queue = <<>>]
    /\ deletePromise' = "rejected"
    /\ UNCHANGED <<pipeVars, imageData, fillVars, sampleVars, appVars, passVars>>

Items == [id : ItemIds, sessionId : SessionIds, timestamp : Timestamps]

InitDb ==
    /\ source = Undecodable
    /\ backgroundColor = GREEN
    /\ tolerance = 50
    /\ ctxAvailable = TRUE
    /\ pc = "idle"
    /\ imageData = NoImage
    /\ promise = Pending
    /\ output = <<>>
    /\ passLog = <<>>
    /\ FillIdle
    /\ SampleIdle
    /\ AppIdle
    /\ PassIdle
    /\ DbIdle

DbNext ==
    \/ \E item \in Items : SaveHistoryItem(item)
    \/ \E sid \in SessionIds, name \in Names : SaveSessionName(sid, name)
    \/ \E sid \in SessionIds : DeleteSession(sid)
    \/ DbRequest
    \/ DbComplete
    \/ DbError

SpecDb == InitDb /\ [][DbNext]_vars

-----------------------------------------------------------------------------
(* Properties *)

\* The buffer a pass left: passLog holds decode, key, erode, erode, dilate,
\* dilate, filter in positions 1 .. 7.
Decoded == [width |-> source.width, height |-> source.height, data |-> source.data]
After(i) == passLog[i].img
AlphaAt(img, p) == img.data[p * 4 + 3]
AllTransparent(img) == \A p \in Pixels(img) : AlphaAt(img, p) = 0

IsCentreSquareRun ==
    /\ source.width = 10
    /\ source = GreenWithRed(CentreSquare)
    /\ backgroundColor = GREEN
    /\ tolerance = 50

PixelOf(img, p) == <<img.data[p * 4], img.data[p * 4 + 1], img.data[p * 4 + 2], img.data[p * 4 + 3]>>

IsSingleRedRun ==
    /\ source.decodable
    /\ source.width = 10
    /\ source.height = 10
    /\ \E p \in 0 .. 99 :
          \A q \in 0 .. 99 : PixelOf(source, q) = IF q = p THEN RedPx ELSE GreenPx
    /\ backgroundColor = GREEN
    /\ tolerance = 50

\* C1 as stated: on the 10x10 green image with the 2x2 red centre square, key
\* green, tolerance 50, the output has alpha 255 on exactly the four red pixels
\* and alpha 0 on every green pixel.
C1_SquareSurvives ==
    (pc = "resolved" /\ IsCentreSquareRun) =>
        \A p \in 0 .. 99 :
            AlphaAt(output[1], p) = IF p \in CentreSquare THEN 255 ELSE 0

\* C1 amended: on that image keying leaves alpha 255 on exactly the four red
\* pixels, the first erosion already clears all four (each has a keyed-out
\* pixel in its 3x3 window), and the output has alpha 0 on every pixel.
C1_SquareEroded ==
    IsCentreSquareRun =>
        /\ Len(passLog) >= 2 =>
              \A p \in 0 .. 99 : AlphaAt(After(2), p) = IF p \in CentreSquare THEN 255 ELSE 0
        /\ Len(passLog) >= 3 => AllTransparent(After(3))
        /\ pc = "resolved" => AllTransparent(output[1])

C1_Witness == pc = "resolved" /\ IsCentreSquareRun /\ Len(passLog) = 7

\* C2: on a 10x10 green image with a single red pixel, key green, tolerance 50
\* (and the code's minRegionSize of 50), every pixel of the output has alpha 0.
C2_SingleRedPixelRemoved ==
    (pc = "resolved" /\ IsSingleRedRun) => AllTransparent(output[1])

C2_Witness ==
    /\ pc = "resolved"
    /\ source.width = 10
    /\ source = GreenWithRed({44})
    /\ backgroundColor = GREEN
    /\ tolerance = 50
    /\ minRegionSize = 50
    /\ AlphaAt(After(2), 44) = 255

\* The maximal 4-connected region of pixels with alpha > 0 that holds p, from
\* the coordinates alone.
Adjacent4(img, p, q) ==
    LET dx == (p % img.width) - (q % img.width)
        dy == (p \div img.width) - (q \div img.width)
    IN  dx * dx + dy * dy = 1

RECURSIVE Grown(_, _)
Grown(img, S) ==
    LET T == S \cup {q \in Pixels(img) :
                        AlphaAt(img, q) > 0 /\ \E r \in S : Adjacent4(img, r, q)}
    IN  IF T = S THEN S ELSE Grown(img, T)

RegionOf(img, p) == Grown(img, {p})

\* C3: when the region filter has run, a pixel of a region of fewer than
\* minRegionSize pixels has alpha 0, and a pixel of a region of minRegionSize
\* pixels or more has the alpha it had.
C3_RegionThreshold ==
    fpc = "done" =>
        \A p \in Pixels(Decoded) :
            AlphaAt(imageData, p) =
                IF AlphaAt(Decoded, p) > 0 /\ Cardinality(RegionOf(Decoded, p)) >= filterSize
                THEN AlphaAt(Decoded, p)
                ELSE 0

\* A run with a region of exactly minRegionSize pixels and one of one pixel less.
C3_Witness ==
    /\ fpc = "done"
    /\ filterSize > 1
    /\ \E p, q \in Pixels(Decoded) :
          /\ AlphaAt(Decoded, p) > 0
          /\ AlphaAt(Decoded, q) > 0
          /\ Cardinality(RegionOf(Decoded, p)) = filterSize
          /\ Cardinality(RegionOf(Decoded, q)) = filterSize - 1
          /\ AlphaAt(imageData, p) = AlphaAt(Decoded, p)
          /\ AlphaAt(imageData, q) = 0

Transparent(img) == {p \in Pixels(img) : AlphaAt(img, p) = 0}

\* C4: whatever the order of the seeds and of the work-list, the pixels that
\* are transparent when the region filter has run are those the raster scan
\* with the LIFO work-list leaves transparent.
C4_OrderIndependent ==
    fpc = "done" =>
        Transparent(imageData) = Transparent(removeSmallRegions(Decoded, {}, 0, filterSize))

\* A run whose seeds were not taken in raster order, with a region kept and a
\* region removed.
C4_Witness ==
    /\ fpc = "done"
    /\ order = "any"
    /\ Len(seeds) >= 2
    /\ seeds[1].region[1] > seeds[2].region[1]
    /\ \E i, j \in 1 .. Len(seeds) : seeds[i].size < filterSize /\ seeds[j].size >= filterSize

\* C5: an erode pass leaves no pixel's alpha above what it was before the
\* pass, and a dilate pass leaves no pixel's alpha below it.
C5_ErodeDownDilateUp ==
    \A i \in 2 .. Len(passLog) :
        /\ passLog[i].pass = "erode" =>
              \A p \in Pixels(After(i)) : AlphaAt(After(i), p) <= AlphaAt(After(i - 1), p)
        /\ passLog[i].pass = "dilate" =>
              \A p \in Pixels(After(i)) : AlphaAt(After(i), p) >= AlphaAt(After(i - 1), p)

\* A run where an erosion lowered a pixel and a dilation raised one.
C5_Witness ==
    /\ Len(passLog) >= 6
    /\ \E p \in Pixels(After(3)) : AlphaAt(After(3), p) < AlphaAt(After(2), p)
    /\ \E p \in Pixels(After(5)) : AlphaAt(After(5), p) > AlphaAt(After(4), p)
    /\ \E p \in Pixels(After(5)) :
          /\ AlphaAt(After(4), p) > 0
          /\ AlphaAt(After(5), p) > AlphaAt(After(4), p)

\* The squared distance of pixel p of the decoded image to the key colour.
KeyDistanceSq(p) ==
    LET key == keyRGB(backgroundColor)
        dr == Decoded.data[p * 4] - key[1]
        dg == Decoded.data[p * 4 + 1] - key[2]
        db == Decoded.data[p * 4 + 2] - key[3]
    IN  dr * dr + dg * dg + db * db

InFeatherBand(p) ==
    /\ KeyDistanceSq(p) >= tolerance * tolerance
    /\ 100 * KeyDistanceSq(p) < 169 * tolerance * tolerance

\* C6: keying the keyed image again, with the same key colour and tolerance,
\* changes no alpha value (and no other byte of the buffer).
C6_KeyingIdempotent ==
    Len(passLog) >= 2 => chromaKey(After(2), backgroundColor, tolerance) = After(2)

\* A keyed pixel of the feather band whose alpha the pass lowered to a value
\* above 0.
C6_Witness ==
    /\ Len(passLog) >= 2
    /\ \E p \in Pixels(Decoded) :
          /\ InFeatherBand(p)
          /\ AlphaAt(After(2), p) > 0
          /\ AlphaAt(After(2), p) < AlphaAt(Decoded, p)

\* 2 * v - 1 <= 2 * min(a, x) <= 2 * v + 1, x the feather formula's value at
\* squared distance n: v is min(a, x) to the nearest integer.
NearestToMin(v, a, n, t) ==
    \/ v = a /\ featherAtLeastHalfBelow(n, t, a)
    \/ /\ v < a
       /\ featherAtLeastHalfBelow(n, t, v)
       /\ ~featherAtLeastHalfBelow(n, t, v + 1) \/ featherIsHalfBelow(n, t, v + 1)

\* C7: with d the distance of a pixel to the key colour, the keyed alpha is 0
\* when d < tolerance, min(previous alpha, ((d - tolerance) / (tolerance *
\* 0.3)) * 255) as an 8-bit value when tolerance <= d < 1.3 * tolerance, and
\* the previous alpha otherwise; it is never above the previous alpha.
C7_KeyingRule ==
    Len(passLog) >= 2 =>
        \A p \in Pixels(Decoded) :
            LET n == KeyDistanceSq(p)
                a == AlphaAt(Decoded, p)
                v == AlphaAt(After(2), p)
            IN  /\ n < tolerance * tolerance => v = 0
                /\ InFeatherBand(p) => NearestToMin(v, a, n, tolerance)
                /\ 100 * n >= 169 * tolerance * tolerance => v = a
                /\ v <= a

\* A keyed pixel of the feather band whose previous alpha was below the
\* feather value, and kept.
C7_Witness ==
    /\ Len(passLog) >= 2
    /\ \E p \in Pixels(Decoded) :
          /\ InFeatherBand(p)
          /\ AlphaAt(Decoded, p) = 100
          /\ AlphaAt(After(2), p) = 100
          /\ featherAtLeastHalfBelow(KeyDistanceSq(p), tolerance, 102)

\* C8: a pixel at distance exactly tolerance is keyed to alpha 0; at distance
\* exactly 1.3 * tolerance the feather formula gives 255 and the pixel keeps
\* its alpha, so an opaque pixel has 255 there.
C8_FeatherEnds ==
    Len(passLog) >= 2 =>
        \A p \in Pixels(Decoded) :
            LET n == KeyDistanceSq(p)
            IN  /\ n = tolerance * tolerance => AlphaAt(After(2), p) = 0
                /\ 100 * n = 169 * tolerance * tolerance =>
                      /\ featherAlpha(n, tolerance) = 255
                      /\ AlphaAt(After(2), p) = AlphaAt(Decoded, p)

\* An opaque pixel at distance exactly 1.3 * tolerance, keyed.
C8_Witness ==
    /\ Len(passLog) >= 2
    /\ \E p \in Pixels(Decoded) :
          /\ 100 * KeyDistanceSq(p) = 169 * tolerance * tolerance
          /\ AlphaAt(Decoded, p) = 255
          /\ AlphaAt(After(2), p) = 255

\* An opaque pixel at distance exactly tolerance, keyed.
C8_WitnessLowerEnd ==
    /\ Len(passLog) >= 2
    /\ \E p \in Pixels(Decoded) :
          /\ KeyDistanceSq(p) = tolerance * tolerance
          /\ AlphaAt(Decoded, p) = 255
          /\ AlphaAt(After(2), p) = 0

\* C9: a pixel of exactly the key colour has alpha 0 after keying and after
\* every later pass, and in the output.
C9_KeyColourTransparent ==
    \A p \in Pixels(Decoded) :
        KeyDistanceSq(p) = 0 =>
            /\ \A i \in 2 .. Len(passLog) : AlphaAt(After(i), p) = 0
            /\ pc = "resolved" => AlphaAt(output[1], p) = 0

\* An output where a pixel of the key colour that came with alpha > 0 lies
\* beside foreground that was kept, for a tolerance other than the default.
C9_Witness ==
    /\ pc = "resolved"
    /\ tolerance # 50
    /\ \E p, q \in Pixels(Decoded) :
          /\ KeyDistanceSq(p) = 0
          /\ AlphaAt(Decoded, p) > 0
          /\ Adjacent4(Decoded, p, q)
          /\ AlphaAt(output[1], q) > 0

RGBMatches(img) ==
    /\ img.width = Decoded.width
    /\ img.height = Decoded.height
    /\ \A p \in Pixels(Decoded) :
          /\ img.data[p * 4] = Decoded.data[p * 4]
          /\ img.data[p * 4 + 1] = Decoded.data[p * 4 + 1]
          /\ img.data[p * 4 + 2] = Decoded.data[p * 4 + 2]

\* C10: after keying, after each erosion, after each dilation and after the
\* region filter, and in the output, every pixel has the red, green and blue
\* of the input.
C10_RGBUntouched ==
    /\ \A i \in 1 .. Len(passLog) : RGBMatches(After(i))
    /\ pc = "resolved" => RGBMatches(output[1])

\* An output in which keying, an erosion and the region filter each forced a
\* pixel transparent.
C10_Witness ==
    /\ pc = "resolved"
    /\ \E p \in Pixels(Decoded) : AlphaAt(Decoded, p) > 0 /\ AlphaAt(After(2), p) = 0
    /\ \E p \in Pixels(Decoded) : AlphaAt(After(2), p) > 0 /\ AlphaAt(After(3), p) = 0
    /\ \E p \in Pixels(Decoded) :
          /\ AlphaAt(After(6), p) > 0
          /\ AlphaAt(After(7), p) = 0
          /\ Decoded.data[p * 4] > 0

\* Pixel h is the only transparent pixel of img, every other pixel is fully
\* opaque, and h lies off the border: an isolated hole strictly inside an
\* opaque region.
StrictlyInside(img, h) ==
    /\ h % img.width > 0
    /\ h % img.width < img.width - 1
    /\ h \div img.width > 0
    /\ h \div img.width < img.height - 1

IsIsolatedHole(img, h) ==
    /\ StrictlyInside(img, h)
    /\ \A q \in Pixels(img) : AlphaAt(img, q) = IF q = h THEN 0 ELSE 255

\* The pixels at least margin pixels away from every border.
AwayFromBorder(img, h, margin) ==
    /\ h % img.width >= margin
    /\ h % img.width < img.width - margin
    /\ h \div img.width >= margin
    /\ h \div img.width < img.height - margin

\* C11 as stated: when the keyed alpha map has one isolated transparent pixel
\* strictly inside an otherwise fully opaque image, the buffer after the two
\* erosions and two dilations has no transparent pixel.
C11_HoleFilled ==
    Len(passLog) >= 6 =>
        \A h \in Pixels(After(2)) :
            IsIsolatedHole(After(2), h) => \A q \in Pixels(After(6)) : AlphaAt(After(6), q) > 0

\* C11 amended: the hole is not filled.  The isolated transparent pixel still
\* has alpha 0 after the two erosions and two dilations, and when it lies at
\* least three pixels away from every border it is the only transparent pixel
\* again, every other pixel being back at alpha 255.
C11_HoleKept ==
    Len(passLog) >= 6 =>
        \A h \in Pixels(After(2)) :
            IsIsolatedHole(After(2), h) =>
                /\ AlphaAt(After(6), h) = 0
                /\ AwayFromBorder(After(2), h, 3) => IsIsolatedHole(After(6), h)

\* A run past the second dilation whose keyed image had an isolated hole three
\* pixels or more from every border, which the erosions had widened.
C11_Witness ==
    /\ Len(passLog) >= 6
    /\ \E h \in Pixels(After(2)) :
          /\ IsIsolatedHole(After(2), h)
          /\ AwayFromBorder(After(2), h, 3)
          /\ AlphaAt(After(4), h + 2) = 0
          /\ AlphaAt(After(6), h + 2) = 255
          /\ AlphaAt(After(6), h) = 0

\* The sum of r + g + b over the sampled pixels: three times the sum whose
\* mean the policy compares with 128.
RECURSIVE ChannelTotal(_)
ChannelTotal(runs) ==
    IF runs = <<>> THEN 0
    ELSE runs[1].n * (runs[1].px[1] + runs[1].px[2] + runs[1].px[3]) + ChannelTotal(Tail(runs))

MeanAbove128(runs) == ChannelTotal(runs) > 3 * 128 * size * size

\* C12: when the sampler has read the pixels, the colour it resolves with is
\* magenta if the mean of (R+G+B)/3 over the size x size grid is above 128 and
\* green otherwise, also at a mean of exactly 128.
C12_LuminancePolicy ==
    (spc = "settled" /\ sample.kind = "image" /\ sampleCtx) =>
        samplerPromise.value = IF MeanAbove128(sample.runs) THEN MAGENTA ELSE GREEN

SamplingFailed == sample.kind \in {"undecodable", "zero-size"} \/ ~sampleCtx

\* C13: getContrastingColor never rejects, on every input its promise is
\* resolved in the end, and when sampling failed (the image does not decode,
\* has zero size, or the canvas gives no context) it resolves with green.
C13_SamplerNeverFails ==
    /\ [](samplerPromise.state # "rejected")
    /\ <>(samplerPromise.state = "resolved")
    /\ [](samplerPromise.state = "resolved" /\ SamplingFailed => samplerPromise.value = GREEN)

\* The error handler has resolved the promise for an image that does not decode.
C13_Witness ==
    /\ spc = "settled"
    /\ sample.kind = "undecodable"
    /\ samplerPromise = [state |-> "resolved", value |-> GREEN]

\* C14: when the image does not decode, no stage runs (nothing is logged, no
\* buffer is read), no output image is produced, the promise is never
\* resolved, and once the error handler has run it is rejected with the load
\* error.
C14_DecodeFailure ==
    ~source.decodable =>
        /\ passLog = <<>>
        /\ imageData = NoImage
        /\ output = <<>>
        /\ promise.state # "resolved"
        /\ pc \in {"loading", "rejected"}
        /\ pc = "rejected" => promise = [state |-> "rejected", error |-> "Failed to load image"]

\* The error handler has run on an image that does not decode.
C14_Witness ==
    /\ ~source.decodable
    /\ pc = "rejected"
    /\ promise.state = "rejected"
    /\ passLog = <<>>

\* C15: called with a tolerance that is not above 0, the handler produces no
\* output image, and what it settles the promise with is a rejection other
\* than the one for an image that does not load.
C15_ConfigErrorReported ==
    tolerance <= 0 =>
        /\ output = <<>>
        /\ pc \in {"resolved", "rejected"} =>
              /\ promise.state = "rejected"
              /\ promise.error # "Failed to load image"

\* C16: the buffer every stage leaves (decoding, keying, each erosion, each
\* dilation, the region filter) and the output have the width and height of
\* the decoded input, width * height * 4 bytes, and alpha values in 0 .. 255.
WellFormed(img) ==
    /\ img.width = source.width
    /\ img.height = source.height
    /\ DOMAIN img.data = 0 .. (img.width * img.height * 4 - 1)
    /\ \A p \in Pixels(img) : AlphaAt(img, p) \in 0 .. 255

C16_BufferInvariant ==
    /\ \A i \in 1 .. Len(passLog) : WellFormed(After(i))
    /\ pc = "resolved" => WellFormed(output[1])

\* A finished run on an image that is not square, in which keying left a
\* feathered alpha.
C16_Witness ==
    /\ pc = "resolved"
    /\ Len(passLog) = 7
    /\ source.width # source.height
    /\ \E p \in Pixels(After(2)) : AlphaAt(After(2), p) \notin {0, 100, 255}

\* C17: no microphone audio is sent to a session while a tool-call batch is
\* being processed, and shouldSendAudio is false whenever isProcessingTool is
\* true.
C17_MutedWhileProcessing ==
    /\ \A c \in audioLog : ~c.processing
    /\ isProcessingTool => ~shouldSendAudio

\* The pixels of img at most one column and one row away from p, p itself
\* among them: the in-bounds part of the 3x3 neighbourhood.
Near(img, p) ==
    LET x == p % img.width
        y == p \div img.width
    IN  {ny * img.width + nx :
            nx \in {x - 1, x, x + 1} \cap (0 .. (img.width - 1)),
            ny \in {y - 1, y, y + 1} \cap (0 .. (img.height - 1))}

OnBorder(img, p) ==
    \/ p % img.width \in {0, img.width - 1}
    \/ p \div img.width \in {0, img.height - 1}

\* The erosion rule between the buffer before a pass and the one after it.
ErodedBy(before, after) ==
    /\ \A p \in Pixels(before) :
          /\ AlphaAt(after, p) = 0 <=> \E q \in Near(before, p) : AlphaAt(before, q) = 0
          /\ AlphaAt(after, p) # 0 => AlphaAt(after, p) = AlphaAt(before, p)
    /\ (\A p \in Pixels(before) : AlphaAt(before, p) # 0) => after = before

\* C18: when an erode pass has just run, a pixel's alpha is 0 exactly when
\* the pixel or an in-bounds pixel of its 3x3 neighbourhood had alpha 0 before
\* the pass, and else it is the alpha it had; positions outside the image
\* trigger nothing, so a buffer with no alpha-0 pixel comes back unchanged.
C18_ErosionRule ==
    Len(passLog) \in {3, 4} => ErodedBy(After(Len(passLog) - 1), After(Len(passLog)))

\* The first erosion ran on a buffer where it removed a pixel and kept a
\* pixel of the border.
C18_Witness ==
    /\ Len(passLog) >= 3
    /\ \E p \in Pixels(After(2)) : AlphaAt(After(2), p) # 0 /\ AlphaAt(After(3), p) = 0
    /\ \E p \in Pixels(After(2)) : OnBorder(After(2), p) /\ AlphaAt(After(3), p) # 0

\* The greatest of a non-empty set of alphas.
Greatest(as) == CHOOSE a \in as : \A c \in as : c <= a

\* The dilation rule between the buffer before a pass and the one after it.
DilatedBy(before, after) ==
    \A p \in Pixels(before) :
        AlphaAt(after, p) = Greatest({AlphaAt(before, q) : q \in Near(before, p)})

\* C19: when a dilate pass has just run, every pixel's alpha is the greatest
\* of the alphas the pixel and the in-bounds pixels of its 3x3 neighbourhood
\* had before the pass; positions outside the image contribute nothing.
C19_DilationRule ==
    Len(passLog) \in {5, 6} => DilatedBy(After(Len(passLog) - 1), After(Len(passLog)))

\* A dilation raised a pixel that one diagonal neighbour alone could raise,
\* and left a border pixel at 0.
C19_Witness ==
    /\ Len(passLog) \in {5, 6}
    /\ LET before == After(Len(passLog) - 1)
           after == After(Len(passLog))
       IN  /\ \E p \in Pixels(before) :
                 /\ AlphaAt(after, p) > AlphaAt(before, p)
                 /\ \A q \in Near(before, p) :
                       AlphaAt(before, q) > AlphaAt(before, p)
                           => /\ q % before.width # p % before.width
                              /\ q \div before.width # p \div before.width
           /\ \E p \in Pixels(before) : OnBorder(before, p) /\ AlphaAt(after, p) = 0

\* The stages of one run, the decoding first, and where the handler stands
\* after each.
StageOrder == <<"decode", "key", "erode", "erode", "dilate", "dilate", "filter">>
StageEnd == <<"decoded", "keyed", "eroded1", "eroded2", "dilated1", "dilated2", "filtered">>

\* C20: the stages of a run are keying, erosion, erosion, dilation, dilation
\* and the region filter, in this order and each once; the buffer a stage
\* starts from is the whole output of the stage before it; a run that
\* resolves has run them all.
C20_StageOrdering ==
    /\ Len(passLog) <= Len(StageOrder)
    /\ \A i \in DOMAIN passLog : passLog[i].pass = StageOrder[i]
    /\ \A i \in DOMAIN StageEnd : pc = StageEnd[i] =>
          /\ Len(passLog) = i
          /\ imageData = After(i)
    /\ pc = "resolved" =>
          /\ Len(passLog) = Len(StageOrder)
          /\ output = <<After(Len(StageOrder))>>

\* A run resolved in which every stage changed the buffer it was given.
C20_Witness ==
    /\ pc = "resolved"
    /\ Len(passLog) = Len(StageOrder)
    /\ \A i \in 2 .. Len(StageOrder) : After(i) # After(i - 1)

\* What the sequential raster scan of the pass returns.
Sequential == IF passKind = "erode" THEN erode(imageData, 1) ELSE dilate(imageData, 1)

\* C21: in whatever order the pixels of one erosion or dilation are
\* processed, every pixel written is the pixel the sequential raster scan
\* writes, and the buffer returned is the buffer the raster scan returns.
C21_PassOrderIndependent ==
    /\ \A p \in passDone : \A c \in 0 .. 3 :
          passOutput.data[p * 4 + c] = Sequential.data[p * 4 + c]
    /\ ppc = "done" => passOutput = Sequential

\* A pass that wrote every pixel but the first of the raster scan, and
\* changed an alpha.
C21_Witness ==
    /\ ppc = "pass"
    /\ passOrder = "any"
    /\ passDone = Pixels(imageData) \ {0}
    /\ \E p \in passDone : AlphaAt(passOutput, p) # AlphaAt(imageData, p)

\* The entries of a sequence are all different.
NoRepeat(s) == \A m, n \in 1 .. Len(s) : s[m] = s[n] => m = n

Entries(s) == {s[n] : n \in 1 .. Len(s)}

\* C22: during the region filter no pixel enters the visited set twice, a
\* region holds no pixel twice and its size is the number of its pixels, the
\* regions of different seeds share no pixel, every pixel collected is
\* visited, and when the pass is over every pixel that had alpha > 0 is in
\* exactly one region.
C22_VisitedOnce ==
    /\ \A p \in DOMAIN marks : marks[p] <= 1
    /\ \A p \in DOMAIN marks : marks[p] = 1 <=> p \in visited
    /\ NoRepeat(region)
    /\ Entries(region) \subseteq visited
    /\ \A i \in 1 .. Len(seeds) :
          /\ NoRepeat(seeds[i].region)
          /\ seeds[i].size = Cardinality(Entries(seeds[i].region))
          /\ fpc = "fill" => Entries(seeds[i].region) \cap Entries(region) = {}
          /\ \A j \in 1 .. Len(seeds) :
                i # j => Entries(seeds[i].region) \cap Entries(seeds[j].region) = {}
    /\ fpc = "done" =>
          \A p \in Pixels(Decoded) :
              AlphaAt(Decoded, p) > 0 =>
                  Cardinality({i \in 1 .. Len(seeds) : p \in Entries(seeds[i].region)}) = 1

\* The pass is over, with two regions next to the same transparent pixel, one
\* of them of more than one pixel.
C22_Witness ==
    /\ fpc = "done"
    /\ \E i, j \in 1 .. Len(seeds) :
          /\ i # j
          /\ seeds[i].size >= 2
          /\ \E t \in Pixels(Decoded) :
                /\ AlphaAt(Decoded, t) = 0
                /\ t \in visited
                /\ \E a \in Entries(seeds[i].region) : Adjacent4(Decoded, a, t)
                /\ \E b \in Entries(seeds[j].region) : Adjacent4(Decoded, b, t)

Diagonal(img, p, q) ==
    LET dx == (p % img.width) - (q % img.width)
        dy == (p \div img.width) - (q \div img.width)
    IN  dx * dx = 1 /\ dy * dy = 1

\* p ends a row and q starts the next one.
RowBreak(img, p, q) == p % img.width = img.width - 1 /\ q = p + 1

\* C23: the pixels one flood fill collects are exactly the pixels with
\* alpha > 0 that up/down/left/right steps over such pixels reach from its
\* seed; while the fill runs it has collected only such pixels; and the size
\* of that one component decides whether its pixels are cleared.
C23_MaximalComponent ==
    /\ \A i \in 1 .. Len(seeds) :
          /\ seeds[i].region # <<>>
          /\ Entries(seeds[i].region) = RegionOf(Decoded, seeds[i].region[1])
          /\ seeds[i].size = Cardinality(RegionOf(Decoded, seeds[i].region[1]))
          /\ \A p \in Entries(seeds[i].region) :
                AlphaAt(imageData, p) =
                    IF seeds[i].size < filterSize THEN 0 ELSE AlphaAt(Decoded, p)
    /\ (fpc = "fill" /\ region # <<>>) =>
          Entries(region) \subseteq RegionOf(Decoded, region[1])

\* The pass is over; two regions touch only at a corner, two regions lie at
\* the end of one row and the start of the next, and in both pairs each
\* region is below the threshold that the two together would reach.
C23_Witness ==
    /\ fpc = "done"
    /\ \E i, j \in 1 .. Len(seeds) :
          /\ i # j
          /\ \E a \in Entries(seeds[i].region), b \in Entries(seeds[j].region) :
                Diagonal(Decoded, a, b)
          /\ seeds[i].size < filterSize
          /\ seeds[j].size < filterSize
          /\ seeds[i].size + seeds[j].size >= filterSize
          /\ \A p \in Entries(seeds[i].region) \cup Entries(seeds[j].region) :
                AlphaAt(imageData, p) = 0
    /\ \E i, j \in 1 .. Len(seeds) :
          /\ i # j
          /\ \E a \in Entries(seeds[i].region), b \in Entries(seeds[j].region) :
                RowBreak(Decoded, a, b)
          /\ seeds[i].size < filterSize
          /\ seeds[j].size < filterSize
          /\ seeds[i].size + seeds[j].size >= filterSize
          /\ \A p \in Entries(seeds[i].region) \cup Entries(seeds[j].region) :
                AlphaAt(imageData, p) = 0

\* C24: every flood fill that starts empties its work-list, and the scan of
\* the region filter comes to its end, whatever the regions are.
C24_FilterTerminates ==
    /\ (fpc = "fill") ~> (fpc = "fill" /\ stack = <<>>)
    /\ <>(fpc = "done")

\* The filter is over after a fill whose region is a whole row and more, and
\* whose work-list held a pixel more than once.
C24_Witness ==
    /\ fpc = "done"
    /\ \E i \in 1 .. Len(seeds) : seeds[i].size > FillW
    /\ visited = Pixels(Decoded)

\* C27: a pixel whose alpha is 0 after the keying pass has alpha 0 after
\* every later pass (the two erosions, the two dilations, the region filter)
\* and in the image the promise resolves with.
C27_BackgroundStaysOut ==
    Len(passLog) >= 2 =>
        \A p \in Pixels(After(2)) :
            AlphaAt(After(2), p) = 0 =>
                /\ \A i \in 3 .. Len(passLog) : AlphaAt(After(i), p) = 0
                /\ pc = "resolved" => AlphaAt(output[1], p) = 0

\* A resolved run: the keying pass took pixels out, the erosions took out
\* more, the dilations brought some of those back right next to a keyed-out
\* pixel, and the output still shows them.
C27_Witness ==
    /\ pc = "resolved"
    /\ \E p, q \in Pixels(After(2)) :
          /\ AlphaAt(Decoded, p) > 0
          /\ AlphaAt(After(2), p) = 0
          /\ Adjacent4(Decoded, p, q)
          /\ AlphaAt(After(2), q) > 0
          /\ AlphaAt(After(4), q) = 0
          /\ AlphaAt(After(6), q) > 0
          /\ AlphaAt(output[1], q) > 0

\* C26: when deleteSession(sid) resolves, its one transaction has removed
\* every history record of sid and the session record of sid, the records of
\* every other session are the ones that were there when it began,
\* getSessionItems(sid) is empty and getAllSessions has no entry for sid;
\* the records of other sessions are untouched all along, and a transaction
\* that fails leaves both stores as they were.
C26_DeleteSession ==
    LET sid == transaction.sessionId
        before == transaction.before
    IN  /\ transaction.state \in {"active", "complete"} =>
              /\ {i \in historyStore : i.sessionId # sid} =
                     {i \in before.history : i.sessionId # sid}
              /\ {m \in sessionsStore : m.sessionId # sid} =
                     {m \in before.sessions : m.sessionId # sid}
        /\ transaction.state = "complete" =>
              /\ deletePromise = "resolved"
              /\ \A i \in historyStore : i.sessionId # sid
              /\ \A m \in sessionsStore : m.sessionId # sid
              /\ getSessionItems(sid) = <<>>
              /\ \A n \in DOMAIN getAllSessions : getAllSessions[n].sessionId # sid
              /\ Len(getAllSessions) =
                     Cardinality({i.sessionId : i \in before.history} \ {sid})
        /\ transaction.state = "aborted" =>
              /\ deletePromise = "rejected"
              /\ historyStore = before.history
              /\ sessionsStore = before.sessions

\* deleteSession has resolved for a session that had two history records
\* and a name, next to another session with a record and a name, which are
\* both still there.
C26_Witness ==
    /\ transaction.state = "complete"
    /\ Cardinality({i \in transaction.before.history :
                       i.sessionId = transaction.sessionId}) >= 2
    /\ \E m \in transaction.before.sessions : m.sessionId = transaction.sessionId
    /\ \E i \in historyStore : i.sessionId # transaction.sessionId
    /\ \E m \in sessionsStore : m.sessionId # transaction.sessionId
    /\ Len(getAllSessions) = 1

\* A batch that handleToolCall skipped: no function run, no response made or
\* sent.
SkippedClean(i) ==
    /\ batches[i].next = 1
    /\ batches[i].responses = <<>>
    /\ \A n \in DOMAIN toolResponses : toolResponses[n].batch # i

\* C25: at most one tool-call batch is being processed at any time, and a
\* batch that arrived while another was being processed has run none of its
\* functions and has sent no tool response.
C25_OneBatchAtATime ==
    /\ Cardinality({i \in DOMAIN batches : InFlight(batches[i])}) <= 1
    /\ \A i \in DOMAIN batches : batches[i].pc = "skipped" => SkippedClean(i)

\* stopSession has run since the last startSession: it closed the audio
\* context the latest startSession made.
StoppedSinceStart == sessions # <<>> /\ sessions[Len(sessions)].ctx = "closed"

\* C29: once stopSession has run, appState is IDLE and stays IDLE until
\* startSession is called again: no step other than a call of startSession
\* leaves a state other than IDLE behind.
C29_StopIsFinal ==
    [][(StoppedSinceStart /\ Len(sessions') = Len(sessions)) => appState' = "IDLE"]_vars

\* C30: every tool-call batch that starts being processed comes to its end,
\* the step that ends it leaves isProcessingTool false and shouldSendAudio
\* true, and whenever the microphone is muted it is unmuted later.
C30_UnmuteLiveness ==
    /\ \A i \in 1 .. MaxCalls :
          (i \in DOMAIN batches /\ InFlight(batches[i]))
              ~> (i \in DOMAIN batches /\ batches[i].pc = "done")
    /\ [][\A i \in DOMAIN batches :
              (batches[i].pc # "done" /\ batches'[i].pc = "done") =>
                  (~isProcessingTool' /\ shouldSendAudio')]_vars
    /\ isProcessingTool ~> (~isProcessingTool /\ shouldSendAudio)

\* Two batches are done and the microphone is unmuted: a function of one
\* threw, a function of the other returned its image.
C30_Witness ==
    /\ ~isProcessingTool
    /\ shouldSendAudio
    /\ \E i \in DOMAIN batches :
          /\ batches[i].pc = "done"
          /\ \E n \in DOMAIN batches[i].responses :
                /\ batches[i].responses[n].name = "generate_image"
                /\ batches[i].responses[n].result = "error"
    /\ \E i \in DOMAIN batches :
          /\ batches[i].pc = "done"
          /\ \E n \in DOMAIN batches[i].responses : batches[i].responses[n].result = "ok"

\* C28: currentIndex is -1 when the history is empty and otherwise
\* 0 <= currentIndex < history.length.
C28_IndexInTimeline ==
    IF history = 0 THEN currentIndex = -1
    ELSE currentIndex >= 0 /\ currentIndex < history

=============================================================================
